---------------------------- MODULE Spec2Model ----------------------------
(***************************************************************************)
(* Label scanner (meat-check): the OCR worker singleton                    *)
(* (src/lib/tesseractWorker.ts), the three ScanModal components            *)
(* (src/unnamed/part_000, and the two components of                        *)
(* src/components/ScanModal.tsx), the text functions they call             *)
(* (src/lib/match.ts, parseKg), the session store (src/lib/storage.ts)     *)
(* and the OCR route (src/app/api/ocr/route.ts).                           *)
(*                                                                         *)
(* Conventions.                                                            *)
(*  - A JavaScript string is a sequence of one-character tokens.  The      *)
(*    tokens "A-uml", "a-uml", "O-uml", "o-uml" stand for the precomposed  *)
(*    letters U+00C4, U+00E4, U+00D6, U+00F6, the token "uml" for the      *)
(*    combining diaeresis U+0308 and "LF" for a line feed.                 *)
(*  - A JavaScript number is a record [nan, milli]: NaN, or the value in   *)
(*    thousandths (2.35 is milli = 2350).                                  *)
(*  - JavaScript runs one task to completion and then drains every         *)
(*    microtask: an action is one task (an event handler with the render   *)
(*    and effects it causes, or the completion of one external             *)
(*    asynchronous operation) together with the promise continuations it   *)
(*    releases.                                                            *)
(*  - Display-only state (showText, ocrProgress) and the video element     *)
(*    are left out: no modelled transition reads them.  A capture that     *)
(*    finds the camera unusable is CaptureFail.                            *)
(*                                                                         *)
(* Specifications.  Spec: the modal opened and closed repeatedly, the      *)
(* camera not answering.  SpecSession: one opening, with more label texts  *)
(* and weight inputs.  SpecCamera: one opening, the camera answering.      *)
(* SpecText: one call of a text function on a bounded input.               *)
(* SpecDetector: the Stability Detector of spec 4.5, which the sources     *)
(* do not contain, over one clock and two sessions.  SpecStorage: the      *)
(* storage functions of src/lib/storage.ts called one after another.       *)
(* SpecPage: the session page with its scan modal while the home page in   *)
(* another tab deletes the session.  SpecRoute: one request to POST of     *)
(* src/app/api/ocr/route.ts.                                               *)
(***************************************************************************)
EXTENDS Integers, Sequences, FiniteSets, TLC

(***************************************************************************)
(* Characters                                                              *)
(***************************************************************************)
Digits == <<"0", "1", "2", "3", "4", "5", "6", "7", "8", "9">>

LowerLetters ==
    <<"a", "b", "c", "d", "e", "f", "g", "h", "i", "j", "k", "l", "m",
      "n", "o", "p", "q", "r", "s", "t", "u", "v", "w", "x", "y", "z",
      "a-uml", "o-uml">>

UpperLetters ==
    <<"A", "B", "C", "D", "E", "F", "G", "H", "I", "J", "K", "L", "M",
      "N", "O", "P", "Q", "R", "S", "T", "U", "V", "W", "X", "Y", "Z",
      "A-uml", "O-uml">>

Range(s) == {s[i] : i \in 1..Len(s)}

IndexOf(s, c) == CHOOSE i \in 1..Len(s) : s[i] = c

IsDigit(c) == c \in Range(Digits)

DigitVal(c) == IndexOf(Digits, c) - 1

\* \s of a regular expression and the white space String.prototype.trim removes
IsSpace(c) == c \in {" ", "LF"}

\* U+0300..U+036F
IsCombining(c) == c \in {"uml"}

\* \w of a regular expression: [A-Za-z0-9_]
IsWordChar(c) ==
    \/ IsDigit(c)
    \/ c = "_"
    \/ \E i \in 1..26 : c = LowerLetters[i] \/ c = UpperLetters[i]

UpperChar(c) ==
    IF c \in Range(LowerLetters) THEN UpperLetters[IndexOf(LowerLetters, c)] ELSE c

\* canonical decomposition of one character
Decompose(c) ==
    CASE c = "A-uml" -> <<"A", "uml">>
      [] c = "a-uml" -> <<"a", "uml">>
      [] c = "O-uml" -> <<"O", "uml">>
      [] c = "o-uml" -> <<"o", "uml">>
      [] OTHER -> <<c>>

(***************************************************************************)
(* src/lib/match.ts: normalizeText                                         *)
(***************************************************************************)
RECURSIVE TrimLeft(_)
TrimLeft(s) ==
    IF s = <<>> THEN s
    ELSE IF IsSpace(Head(s)) THEN TrimLeft(Tail(s)) ELSE s

RECURSIVE TrimRight(_)
TrimRight(s) ==
    IF s = <<>> THEN s
    ELSE IF IsSpace(s[Len(s)]) THEN TrimRight(SubSeq(s, 1, Len(s) - 1)) ELSE s

trim(s) == TrimRight(TrimLeft(s))

toUpperCase(s) == [i \in 1..Len(s) |-> UpperChar(s[i])]

RECURSIVE normalizeNFD(_)
normalizeNFD(s) ==
    IF s = <<>> THEN <<>> ELSE Decompose(Head(s)) \o normalizeNFD(Tail(s))

\* .replace(/[\u0300-\u036f]/g, "")
stripCombining(s) == SelectSeq(s, LAMBDA c : ~IsCombining(c))

\* .replace(/\s+/g, " ")
RECURSIVE collapseSpaces(_)
collapseSpaces(s) ==
    IF s = <<>> THEN <<>>
    ELSE IF IsSpace(Head(s)) THEN <<" ">> \o collapseSpaces(TrimLeft(s))
    ELSE <<Head(s)>> \o collapseSpaces(Tail(s))

normalizeText(text) ==
    collapseSpaces(stripCombining(normalizeNFD(toUpperCase(trim(text)))))

(***************************************************************************)
(* src/lib/match.ts: levenshtein, similarity                               *)
(***************************************************************************)
Min2(x, y) == IF x <= y THEN x ELSE y

\* row i of dp, built left to right; cur[k] is dp[i][k-1], prev[k] is dp[i-1][k-1]
\* (the tests on Len make each cell and each row a value before the next one
\* is computed from it: a row always has Len(b) + 1 cells)
RECURSIVE LevRow(_, _, _, _, _)
LevRow(prev, cur, ai, b, j) ==
    IF j > Len(b) THEN cur
    ELSE LET cost == IF ai = b[j] THEN 0 ELSE 1
             cell == Min2(Min2(prev[j + 1] + 1, cur[j] + 1), prev[j] + cost)
             next == Append(cur, cell)
         IN  IF Len(next) = j + 1 THEN LevRow(prev, next, ai, b, j + 1) ELSE next

RECURSIVE LevRows(_, _, _, _)
LevRows(prev, a, b, i) ==
    IF i > Len(a) THEN prev[Len(b) + 1]
    ELSE LET row == LevRow(prev, <<i>>, a[i], b, 1)
         IN  IF Len(row) = Len(b) + 1 THEN LevRows(row, a, b, i + 1) ELSE 0

\* fault model: a distance that compares the lengths only
lengthDifference(a, b) == IF Len(a) >= Len(b) THEN Len(a) - Len(b) ELSE Len(b) - Len(a)

levenshtein(a, b) ==
    IF Len(a) = 0 THEN Len(b)
    ELSE IF Len(b) = 0 THEN Len(a)
    ELSE LevRows([j \in 1..(Len(b) + 1) |-> j - 1], a, b, 1)

\* 1 - dist / maxLen as the exact fraction <<maxLen - dist, maxLen>>
similarity(a, b) ==
    IF Len(a) = 0 /\ Len(b) = 0 THEN <<1, 1>>
    ELSE LET maxLen == IF Len(a) >= Len(b) THEN Len(a) ELSE Len(b)
         IN  <<maxLen - levenshtein(a, b), maxLen>>

\* comparison of two fractions with positive denominators
\* fault model: a comparison that lets an equal score replace the best
scoreNotLess(x, y) == x[1] * y[2] >= y[1] * x[2]

FracGT(x, y) == x[1] * y[2] > y[1] * x[2]

FracGE(x, y) == x[1] * y[2] >= y[1] * x[2]

\* fault model: a threshold of two thirds
LooseThreshold == <<2, 3>>

FUZZY_THRESHOLD == <<3, 4>>

(***************************************************************************)
(* src/lib/products.ts: the catalog (its first products; a name is opaque) *)
(***************************************************************************)
PRODUCTS ==
    << [id |-> "10550", name |-> "SIANPAA",
        keywords |-> << <<"S", "I", "A", "N", "P", "A-uml", "A-uml">> >>],
       [id |-> "10567", name |-> "SIAN MAKSA",
        keywords |-> << <<"M", "A", "K", "S", "A">> >>] >>

\* Product | null: an index into the catalog, 0 for null
NoProduct == 0

(***************************************************************************)
(* src/lib/match.ts: matchProduct                                          *)
(***************************************************************************)
\* String.prototype.includes
includes(hay, needle) ==
    \E i \in 0..(Len(hay) - Len(needle)) :
        SubSeq(hay, i + 1, i + Len(needle)) = needle

\* normalized.split(" ").filter(Boolean)
RECURSIVE SplitTokens(_, _)
SplitTokens(s, cur) ==
    IF s = <<>> THEN (IF cur = <<>> THEN <<>> ELSE <<cur>>)
    ELSE IF Head(s) = " "
         THEN (IF cur = <<>> THEN <<>> ELSE <<cur>>) \o SplitTokens(Tail(s), <<>>)
         ELSE SplitTokens(Tail(s), Append(cur, Head(s)))

tokensOf(normalized) == SplitTokens(normalized, <<>>)

\* Math.max(...scores) over the full text and every token
RECURSIVE MaxScore(_, _, _)
MaxScore(target, candidates, best) ==
    IF candidates = <<>> THEN best
    ELSE LET sc == similarity(target, Head(candidates))
         IN  MaxScore(target, Tail(candidates),
                      IF FracGT(sc, best) THEN sc ELSE best)

keywordScore(target, normalized) ==
    MaxScore(target, tokensOf(normalized), similarity(target, normalized))

\* fault model: keywords.every in place of keywords.some, true of an empty list
everyKeyword(product, normalized) ==
    \A k \in 1..Len(product.keywords) :
        includes(normalized, normalizeText(product.keywords[k]))

\* Step A: the first product, in catalog order, one of whose keywords is contained
hasKeyword(product, normalized) ==
    \E k \in 1..Len(product.keywords) :
        includes(normalized, normalizeText(product.keywords[k]))

\* fault model: an exact pass in which the last product with a keyword wins
lastExactMatch(normalized, products) ==
    IF \E i \in 1..Len(products) : hasKeyword(products[i], normalized)
    THEN CHOOSE i \in 1..Len(products) :
             /\ hasKeyword(products[i], normalized)
             /\ \A j \in (i + 1)..Len(products) : ~hasKeyword(products[j], normalized)
    ELSE NoProduct

exactMatch(normalized, products) ==
    IF \E i \in 1..Len(products) : hasKeyword(products[i], normalized)
    THEN CHOOSE i \in 1..Len(products) :
             /\ hasKeyword(products[i], normalized)
             /\ \A j \in 1..(i - 1) : ~hasKeyword(products[j], normalized)
    ELSE NoProduct

\* Step B: the loops over products and keywords, best = [product, score]
RECURSIVE fuzzyKeywords(_, _, _, _, _)
fuzzyKeywords(products, i, k, normalized, best) ==
    IF k > Len(products[i].keywords) THEN best
    ELSE LET score == keywordScore(normalizeText(products[i].keywords[k]), normalized)
         IN  fuzzyKeywords(products, i, k + 1, normalized,
                 IF FracGT(score, best.score)
                 THEN [product |-> i, score |-> score] ELSE best)

RECURSIVE fuzzyProducts(_, _, _, _)
fuzzyProducts(products, i, normalized, best) ==
    IF i > Len(products) THEN best
    ELSE fuzzyProducts(products, i + 1, normalized,
                       fuzzyKeywords(products, i, 1, normalized, best))

fuzzyMatch(normalized, products) ==
    fuzzyProducts(products, 1, normalized, [product |-> NoProduct, score |-> <<0, 1>>])

\* fault model: a matchProduct that tries the fuzzy pass before the exact pass
matchFuzzyFirst(ocrText, products) ==
    LET normalized == normalizeText(ocrText)
        exact == exactMatch(normalized, products)
        best == fuzzyMatch(normalized, products)
    IN  IF best.product # NoProduct /\ FracGE(best.score, FUZZY_THRESHOLD)
        THEN [product |-> best.product, method |-> "fuzzy"]
        ELSE IF exact # NoProduct THEN [product |-> exact, method |-> "keyword"]
        ELSE [product |-> NoProduct, method |-> "none"]

matchProduct(ocrText, products) ==
    LET normalized == normalizeText(ocrText)
        exact == exactMatch(normalized, products)
        best == fuzzyMatch(normalized, products)
    IN  IF exact # NoProduct THEN [product |-> exact, method |-> "keyword"]
        ELSE IF best.product # NoProduct /\ FracGE(best.score, FUZZY_THRESHOLD)
        THEN [product |-> best.product, method |-> "fuzzy"]
        ELSE [product |-> NoProduct, method |-> "none"]

(***************************************************************************)
(* Numbers: parseFloat, Number.prototype.toString                          *)
(***************************************************************************)
NaN == [nan |-> TRUE, milli |-> 0]

Num(m) == [nan |-> FALSE, milli |-> m]

\* the longest run of digits at the head of s
RECURSIVE DigitRun(_)
DigitRun(s) ==
    IF s = <<>> \/ ~IsDigit(Head(s)) THEN <<>>
    ELSE <<Head(s)>> \o DigitRun(Tail(s))

RECURSIVE DigitsValue(_, _)
DigitsValue(ds, acc) ==
    IF ds = <<>> THEN acc ELSE DigitsValue(Tail(ds), 10 * acc + DigitVal(Head(ds)))

\* the fraction digits as thousandths (digits after the third are dropped)
FractionMilli(ds) ==
    LET d(i) == IF i <= Len(ds) THEN DigitVal(ds[i]) ELSE 0
    IN  100 * d(1) + 10 * d(2) + d(3)

\* StrDecimalLiteral without exponent and without Infinity: the longest prefix
\* of the trimmed string that reads as [+-] digits [. digits] or [+-] . digits
parseFloat(str) ==
    LET s0 == TrimLeft(str)
        neg == s0 # <<>> /\ Head(s0) = "-"
        s1 == IF s0 # <<>> /\ Head(s0) \in {"+", "-"} THEN Tail(s0) ELSE s0
        ip == DigitRun(s1)
        r1 == SubSeq(s1, Len(ip) + 1, Len(s1))
        fp == IF r1 # <<>> /\ Head(r1) = "." THEN DigitRun(Tail(r1)) ELSE <<>>
        mag == 1000 * DigitsValue(ip, 0) + FractionMilli(fp)
    IN  IF ip = <<>> /\ fp = <<>> THEN NaN
        ELSE Num(IF neg THEN 0 - mag ELSE mag)

RECURSIVE NatToString(_)
NatToString(n) ==
    IF n < 10 THEN <<Digits[n + 1]>>
    ELSE NatToString(n \div 10) \o <<Digits[(n % 10) + 1]>>

RECURSIVE StripTrailingZeros(_)
StripTrailingZeros(ds) ==
    IF ds # <<>> /\ ds[Len(ds)] = "0"
    THEN StripTrailingZeros(SubSeq(ds, 1, Len(ds) - 1)) ELSE ds

\* Number.prototype.toString of a finite number given in thousandths
numberToString(x) ==
    LET mag == IF x.milli < 0 THEN 0 - x.milli ELSE x.milli
        f == mag % 1000
        frac == StripTrailingZeros(<<Digits[(f \div 100) + 1],
                                     Digits[((f \div 10) % 10) + 1],
                                     Digits[(f % 10) + 1]>>)
    IN  (IF x.milli < 0 THEN <<"-">> ELSE <<>>)
        \o NatToString(mag \div 1000)
        \o (IF frac = <<>> THEN <<>> ELSE <<".">> \o frac)

(***************************************************************************)
(* ScanModal: parseKg                                                      *)
(***************************************************************************)
\* .replace(/,/g, ".")
commaToPeriod(s) == [i \in 1..Len(s) |-> IF s[i] = "," THEN "." ELSE s[i]]

\* /(\d+(?:\.\d+)?)[\s]*KG\b/ anchored at position i: the captured group, or <<>>
kgMatchAt(s, i) ==
    LET rest == SubSeq(s, i, Len(s))
        ip == DigitRun(rest)
        r1 == SubSeq(rest, Len(ip) + 1, Len(rest))
        fp == IF r1 # <<>> /\ Head(r1) = "." THEN DigitRun(Tail(r1)) ELSE <<>>
        group == IF fp = <<>> THEN ip ELSE ip \o <<".">> \o fp
        r2 == TrimLeft(SubSeq(rest, Len(group) + 1, Len(rest)))
        unit == Len(r2) >= 2 /\ r2[1] = "K" /\ r2[2] = "G"
                  /\ (Len(r2) = 2 \/ ~IsWordChar(r2[3]))
    IN  IF ip # <<>> /\ unit THEN group ELSE <<>>

\* fault model: a parseKg that reads the last occurrence
parseKgLast(text) ==
    LET normalized == commaToPeriod(normalizeText(text))
        hits == {i \in 1..Len(normalized) : kgMatchAt(normalized, i) # <<>>}
    IN  IF hits = {} THEN NaN
        ELSE parseFloat(kgMatchAt(normalized, CHOOSE i \in hits : \A j \in hits : i >= j))

parseKg(text) ==
    LET normalized == commaToPeriod(normalizeText(text))
        hits == {i \in 1..Len(normalized) : kgMatchAt(normalized, i) # <<>>}
    IN  IF hits = {} THEN NaN
        ELSE parseFloat(kgMatchAt(normalized, CHOOSE i \in hits : \A j \in hits : i <= j))

(***************************************************************************)
(* Bounds of the model and the inputs the environment supplies             *)
(***************************************************************************)
\* times the parent page opens the modal
MaxOpens == 2

\* createWorker invocations (a worker handle is the number of its invocation)
MaxInits == 3

\* captures (handleScan runs) started
MaxScans == 2

\* records emitted to the consumer
MaxEmit == 1

\* part_000 (worker singleton), ScanModal.tsx 1-504 (worker in a component ref),
\* ScanModal.tsx 506-893 (server OCR through /api/ocr)
Variants == {"singleton", "ref", "server"}

TextMaksa == <<"M", "A", "K", "S", "A", " ", "2", ",", "1", " ", "K", "G">>

\* what a recognition can return: a label, or text matching no product
Texts == {TextMaksa, <<"X", "Y">>}

\* what the operator can type into the weight field (<input type="number">)
KgInputs == {<<"0", ".", "0", "4">>}

\* a label with a zero weight, and a label with a product and no weight
TextZero == <<"0", " ", "K", "G">>

TextNoWeight == <<"m", "a", "k", "s", "a">>

LabelTexts == Texts \cup {TextZero, TextNoWeight}

\* weights around the limits of handleConfirm; a number field whose content is
\* not a number has the value ""
WeightInputs ==
    { <<>>, <<"0">>, <<"-", "1">>, <<"0", ".", "0", "4">>, <<"0", ".", "0", "5">>,
      <<"5", "0">>, <<"5", "0", ".", "0", "1">> }

Null == "null"

Workers == 1..MaxInits

ScanIds == 1..MaxScans

\* a getUserMedia request is the number of the opening that made it
Streams == 1..MaxOpens

\* no text function has been called
NoCall == [fn |-> "none"]

\* messages of the errors captureFrame / captureAndProcess throw (the server
\* component has its messages in Vietnamese, written here without diacritics)
captureErrors(v) ==
    IF v = "server"
    THEN {"Camera chua san sang."}
    ELSE {"Camera not ready."}

\* message of an Error thrown by tesseract.js (createWorker, recognize)
EngineError == "engine error"

\* no sample stored, no stability timer running
None == -1

\* the detector before its first session: not sampling, engine not ready
\* now: the clock in ms; active: the sampling loop is scheduled; lock: the
\* shared capture lock; prev: the stored sample (prevSession: the session that
\* took it); stableSince: the stability timer; quietSince: the first of the
\* unbroken run of samples with a difference below the threshold; motionAt:
\* the last sample with a difference at or above it; doneAt: when the last
\* capture completed
DetectorInit ==
    [now |-> 0, session |-> 0, active |-> FALSE, mode |-> "closed", ready |-> FALSE,
     lock |-> FALSE, prev |-> None, prevSession |-> 0, lastSampleAt |-> None,
     stableSince |-> None, cooldownUntil |-> 0, doneAt |-> None, quietSince |-> None,
     motionAt |-> None,
     triggers |-> 0, completions |-> 0]

\* the session the session page shows: created by createSession, no record yet
\* (name and createdAt, which only the display reads, are left out)
FirstSession == [id |-> 1, records |-> <<>>]

VARIABLES
    variant,            \* which ScanModal component is mounted
    open,               \* the open prop (openScan of the session page)
    opens,              \* how many times the modal has been opened
    mode, loading, error, ocrText, selectedProductId, kgInput, workerReady,
    workerPromise,      \* tesseractWorker.ts: 0 is null, else the worker it resolves to
    workerInstance,     \* tesseractWorker.ts: 0 is null
    workerRef,          \* ScanModal.tsx: workerRef.current, 0 is null
    workers,            \* each createWorker invocation: none, init (in flight), settled
    termCalls,          \* terminate() invocations on each worker
    termPending,        \* terminateWorker calls suspended at await terminate()
    waiters,            \* callers suspended at await workerPromise / createWorker, in order
    scans,              \* each handleScan run: where it is suspended
    emitted,            \* the records passed to onConfirmRecord
    streams,            \* each getUserMedia request: none, pending, live, stopped, denied
    streamRef,          \* streamRef.current: 0 is null, else the request it came from
    call,               \* the last call of a text function, with its result
    detector,           \* the state of the Stability Detector (spec 4.5)
    localStorage,       \* the item stored under STORAGE_KEY
    uidCount,           \* how many ids uid() has handed out
    page                \* the session page: its route parameter and its sessions state

vars ==
    <<variant, open, opens, mode, loading, error, ocrText, selectedProductId,
      kgInput, workerReady, workerPromise, workerInstance, workerRef, workers,
      termCalls, termPending, waiters, scans, emitted, streams, streamRef, call,
      detector, localStorage, uidCount, page>>

cameraVars == <<streams, streamRef>>

storageVars == <<localStorage, uidCount, page>>

modalVars == <<mode, loading, error, ocrText, selectedProductId, kgInput>>

pendingVars == <<ocrText, selectedProductId, kgInput>>

Init ==
    /\ variant \in Variants
    /\ open = FALSE
    /\ opens = 0
    /\ mode = "camera"
    /\ loading = FALSE
    /\ error = Null
    /\ ocrText = <<>>
    /\ selectedProductId = ""
    /\ kgInput = <<>>
    /\ workerReady = FALSE
    /\ workerPromise = 0
    /\ workerInstance = 0
    /\ workerRef = 0
    /\ workers = [h \in Workers |-> "none"]
    /\ termCalls = [h \in Workers |-> 0]
    /\ termPending = [h \in Workers |-> 0]
    /\ waiters = <<>>
    /\ scans = [s \in ScanIds |-> [pc |-> "idle", h |-> 0]]
    /\ emitted = <<>>
    /\ streams = [k \in Streams |-> "none"]
    /\ streamRef = 0
    /\ call = NoCall
    /\ detector = DetectorInit
    /\ localStorage = [present |-> TRUE, json |-> <<FirstSession>>]
    /\ uidCount = 1
    /\ page = [sessionId |-> 1, sessions |-> <<FirstSession>>]

(***************************************************************************)
(* src/lib/tesseractWorker.ts (and initWorker / terminateWorker of the     *)
(* component that keeps the worker in a ref)                               *)
(***************************************************************************)
FreeWorkers == {h \in Workers : workers[h] = "none"}

NewWorker ==
    IF FreeWorkers = {} THEN 0
    ELSE CHOOSE h \in FreeWorkers : \A g \in FreeWorkers : h <= g

\* getWorker up to its first suspension: the cached instance, or the promise
\* the caller awaits (create: this call starts the initialization)
getWorker ==
    IF workerInstance # 0
    THEN [cached |-> TRUE, h |-> workerInstance, create |-> FALSE]
    ELSE IF workerPromise = 0
    THEN [cached |-> FALSE, h |-> NewWorker, create |-> TRUE]
    ELSE IF workers[workerPromise] = "settled"
    THEN [cached |-> TRUE, h |-> workerPromise, create |-> FALSE]
    ELSE [cached |-> FALSE, h |-> workerPromise, create |-> FALSE]

\* initWorker up to its first suspension: returns at once when the ref is set,
\* else starts a createWorker of its own
initWorker ==
    IF workerRef # 0
    THEN [cached |-> TRUE, h |-> workerRef, create |-> FALSE]
    ELSE [cached |-> FALSE, h |-> NewWorker, create |-> TRUE]

\* the engine state after caller w ran g (getWorker or initWorker) that far
engineCall(g, w) ==
    /\ g.create => FreeWorkers # {}
    /\ workers' = IF g.create THEN [workers EXCEPT ![g.h] = "init"] ELSE workers
    /\ workerPromise' =
           IF g.create /\ variant = "singleton" THEN g.h ELSE workerPromise
    /\ workerInstance' =
           IF g.cached /\ variant = "singleton" THEN g.h ELSE workerInstance
    /\ waiters' = IF g.cached THEN waiters ELSE Append(waiters, [w EXCEPT !.p = g.h])
    /\ UNCHANGED workerRef

\* terminateWorker up to await terminate(), called n times in one task
terminateCalls(n) ==
    LET cur == IF variant = "singleton" THEN workerInstance ELSE workerRef
    IN  IF cur # 0 /\ variant # "server"
        THEN /\ termCalls' = [termCalls EXCEPT ![cur] = @ + n]
             /\ termPending' = [termPending EXCEPT ![cur] = @ + n]
        ELSE UNCHANGED <<termCalls, termPending>>

\* terminateWorker after await terminate()
terminateResume ==
    IF variant = "singleton"
    THEN workerInstance' = 0 /\ workerPromise' = 0 /\ UNCHANGED workerRef
    ELSE workerRef' = 0 /\ UNCHANGED <<workerInstance, workerPromise>>

\* terminate() of worker h resolves for one of the suspended terminateWorker calls
TerminateDone(h) ==
    /\ UNCHANGED <<cameraVars, call, detector, storageVars>>
    /\ termPending[h] > 0
    /\ termPending' = [termPending EXCEPT ![h] = @ - 1]
    /\ terminateResume
    /\ UNCHANGED <<variant, open, opens, modalVars, workerReady, workers, termCalls,
                   waiters, scans, emitted>>

WaitersOn(h) == SelectSeq(waiters, LAMBDA w : w.p = h)

ScansOn(h) == {WaitersOn(h)[i].n : i \in {j \in 1..Len(WaitersOn(h)) : WaitersOn(h)[j].kind = "scan"}}

HasWaiter(h, kind) == \E i \in 1..Len(WaitersOn(h)) : WaitersOn(h)[i].kind = kind

\* createWorker (with loadLanguage, initialize, setParameters) of worker h succeeds:
\* the handle is stored and every caller awaiting it resumes.  A resumed
\* preloadWorker sets workerReady; a resumed handleScan calls recognize on the
\* handle it got (on workerRef.current in the component that keeps a ref).
InitDone(h) ==
    /\ UNCHANGED <<cameraVars, call, detector, storageVars>>
    /\ workers[h] = "init"
    /\ workers' = [workers EXCEPT ![h] = "settled"]
    /\ IF variant = "singleton"
       THEN workerInstance' = h /\ UNCHANGED workerRef
       ELSE workerRef' = h /\ UNCHANGED workerInstance
    /\ workerReady' = IF HasWaiter(h, "preload") THEN TRUE ELSE workerReady
    /\ scans' = [s \in ScanIds |->
                    IF s \in ScansOn(h) THEN [pc |-> "recognize", h |-> h] ELSE scans[s]]
    /\ waiters' = SelectSeq(waiters, LAMBDA w : w.p # h)
    /\ UNCHANGED <<variant, open, opens, modalVars, workerPromise, termCalls,
                   termPending, emitted>>

\* the error message left by the callers of a failed initialization, the last
\* setError winning: preloadWorker and initWorker report "Failed to initialize
\* OCR.", handleScan reports the message of what it caught
initFailureMessage(h) ==
    LET last == WaitersOn(h)[Len(WaitersOn(h))]
    IN  IF variant = "singleton"
        THEN (IF last.kind = "scan" THEN EngineError ELSE "Failed to initialize OCR.")
        ELSE (IF last.kind = "scan" /\ workerRef = 0
              THEN "OCR worker unavailable." ELSE "Failed to initialize OCR.")

\* createWorker of worker h fails.  tesseractWorker.ts clears workerPromise and
\* rejects every caller; initWorker swallows the error and its handleScan caller
\* goes on with whatever workerRef.current holds.
InitFail(h) ==
    /\ UNCHANGED <<cameraVars, call, detector, storageVars>>
    /\ workers[h] = "init"
    /\ workers' = [workers EXCEPT ![h] = "settled"]
    /\ workerPromise' = IF variant = "singleton" THEN 0 ELSE workerPromise
    /\ error' = initFailureMessage(h)
    /\ LET goesOn == variant = "ref" /\ workerRef # 0
       IN  /\ scans' = [s \in ScanIds |->
                           IF s \in ScansOn(h)
                           THEN (IF goesOn THEN [pc |-> "recognize", h |-> workerRef]
                                 ELSE [pc |-> "done", h |-> 0])
                           ELSE scans[s]]
           /\ loading' = IF ScansOn(h) # {} /\ ~goesOn THEN FALSE ELSE loading
    /\ waiters' = SelectSeq(waiters, LAMBDA w : w.p # h)
    /\ UNCHANGED <<variant, open, opens, mode, pendingVars, workerReady,
                   workerInstance, workerRef, termCalls, termPending, emitted>>

(***************************************************************************)
(* ScanModal: the effect on [open], handleClose                            *)
(***************************************************************************)
resetState ==
    /\ mode' = "camera"
    /\ loading' = FALSE
    /\ error' = Null
    /\ ocrText' = <<>>
    /\ selectedProductId' = ""
    /\ kgInput' = <<>>

clearConfirmState ==
    /\ ocrText' = <<>>
    /\ kgInput' = <<>>
    /\ selectedProductId' = ""

\* startCamera up to await getUserMedia: request k is pending
startCamera(k) ==
    /\ error' = Null
    /\ streams' = [streams EXCEPT ![k] = "pending"]
    /\ UNCHANGED streamRef

\* cleanupStream: the tracks of the stream in streamRef are stopped
cleanupStream ==
    IF streamRef # 0
    THEN streams' = [streams EXCEPT ![streamRef] = "stopped"] /\ streamRef' = 0
    ELSE UNCHANGED <<streams, streamRef>>

\* the parent sets open: the effect body runs startCamera and
\* preloadWorker / initWorker
Open ==
    /\ ~open
    /\ opens < MaxOpens
    /\ open' = TRUE
    /\ opens' = opens + 1
    /\ startCamera(opens + 1)
    /\ UNCHANGED <<call, detector, storageVars>>
    /\ CASE variant = "singleton" ->
              /\ engineCall(getWorker, [kind |-> "preload", n |-> opens + 1, p |-> 0])
              \* setWorkerReady(false), and true as soon as getWorker returns
              /\ workerReady' = getWorker.cached
         [] variant = "ref" ->
              /\ engineCall(initWorker, [kind |-> "init", n |-> opens + 1, p |-> 0])
              /\ UNCHANGED workerReady
         [] OTHER ->
              UNCHANGED <<workers, workerPromise, workerInstance, workerRef,
                          waiters, workerReady>>
    /\ UNCHANGED <<variant, mode, loading, pendingVars, termCalls, termPending,
                   scans, emitted>>

\* Close: handleClose (cleanupStream, resetState, onClose), then with open false
\* the cleanup of the previous effect (cleanupStream, terminateWorker) and the
\* effect body (cleanupStream, terminateWorker, resetState).  The server
\* component has no worker.
handleClose ==
    /\ open
    /\ open' = FALSE
    /\ cleanupStream
    /\ resetState
    /\ UNCHANGED <<call, detector, storageVars>>
    /\ terminateCalls(2)
    /\ UNCHANGED <<variant, opens, workerReady, workerPromise, workerInstance,
                   workerRef, workers, waiters, scans, emitted>>

\* message of the error a rejected getUserMedia carries
CameraError == "Permission denied"

\* getUserMedia of request k resolves: startCamera stores the stream in
\* streamRef and, when the video element is mounted, plays it
StreamGranted(k) ==
    /\ streams[k] = "pending"
    /\ streams' = [streams EXCEPT ![k] = "live"]
    /\ streamRef' = k
    /\ UNCHANGED <<variant, open, opens, modalVars, workerReady, workerPromise,
                   workerInstance, workerRef, workers, termCalls, termPending,
                   waiters, scans, emitted, call, detector, storageVars>>

\* getUserMedia of request k rejects: the catch of startCamera
StreamDenied(k) ==
    /\ streams[k] = "pending"
    /\ streams' = [streams EXCEPT ![k] = "denied"]
    /\ error' = CameraError
    /\ UNCHANGED <<variant, open, opens, mode, loading, pendingVars, workerReady,
                   workerPromise, workerInstance, workerRef, workers, termCalls,
                   termPending, waiters, scans, emitted, streamRef, call,
                   detector, storageVars>>

(***************************************************************************)
(* ScanModal: handleScan                                                   *)
(***************************************************************************)
IdleScans == {s \in ScanIds : scans[s].pc = "idle"}

Finish(s) == [scans EXCEPT ![s] = [pc |-> "done", h |-> 0]]

\* the Scan button (disabled = loading, or loading || !workerReady in part_000):
\* handleScan up to its first await
handleScan ==
    /\ UNCHANGED <<cameraVars, call, detector, storageVars>>
    /\ open
    /\ mode = "camera"
    /\ ~loading
    /\ variant = "singleton" => workerReady
    /\ IdleScans # {}
    /\ LET s == CHOOSE i \in IdleScans : \A j \in IdleScans : i <= j
       IN  scans' = [scans EXCEPT ![s] = [pc |-> "capture", h |-> 0]]
    /\ loading' = TRUE
    /\ error' = Null
    /\ UNCHANGED <<variant, open, opens, mode, pendingVars, workerReady,
                   workerPromise, workerInstance, workerRef, workers, termCalls,
                   termPending, waiters, emitted>>

\* fault model: a handleScan whose failure path skips the finally block
scanFailsKeepsFlag(s, message) ==
    /\ error' = message
    /\ scans' = Finish(s)
    /\ UNCHANGED <<mode, loading, pendingVars>>

\* the catch and finally blocks of handleScan
scanFails(s, message) ==
    /\ error' = message
    /\ loading' = FALSE
    /\ scans' = Finish(s)
    /\ UNCHANGED <<mode, pendingVars>>

\* ensureVideoPlaying / captureFrame / captureAndProcess throws
CaptureFail(s, message) ==
    /\ UNCHANGED <<cameraVars, call, detector, storageVars>>
    /\ scans[s].pc = "capture"
    /\ scanFails(s, message)
    /\ UNCHANGED <<variant, open, opens, workerReady, workerPromise, workerInstance,
                   workerRef, workers, termCalls, termPending, waiters, emitted>>

\* the image is ready: handleScan goes on to the worker (getWorker, or
\* initWorker when the ref is empty) or to the fetch of /api/ocr
CaptureOk(s) ==
    /\ UNCHANGED <<cameraVars, call, detector, storageVars>>
    /\ scans[s].pc = "capture"
    /\ LET w == [kind |-> "scan", n |-> s, p |-> 0]
           g == IF variant = "singleton" THEN getWorker ELSE initWorker
       IN  IF variant = "server"
           THEN /\ scans' = [scans EXCEPT ![s] = [pc |-> "recognize", h |-> 0]]
                /\ UNCHANGED <<workers, workerPromise, workerInstance, workerRef, waiters>>
           ELSE /\ engineCall(g, w)
                /\ scans' = [scans EXCEPT ![s] =
                                [pc |-> IF g.cached THEN "recognize" ELSE "getWorker",
                                 h |-> g.h]]
    /\ UNCHANGED <<variant, open, opens, modalVars, workerReady, termCalls,
                   termPending, emitted>>

\* fault model: a handleScan that drops the recognized text
pendingWithoutText(text) == [ocrText |-> <<>>, selectedProductId |-> "", kgInput |-> <<>>]

\* the pending record handleScan sets from the recognized text
pendingAfterScan(text) ==
    LET matched == matchProduct(text, PRODUCTS)
        parsedKg == parseKg(text)
    IN  [ocrText |-> text,
         selectedProductId |->
             IF matched.product = NoProduct THEN "" ELSE PRODUCTS[matched.product].id,
         \* parsedKg ? parsedKg.toString() : ""  (null and 0 are falsy)
         kgInput |->
             IF parsedKg.nan \/ parsedKg.milli = 0 THEN <<>> ELSE numberToString(parsedKg)]

\* recognize (or the fetch) returns text
RecognizeOk(s, text) ==
    /\ UNCHANGED <<cameraVars, call, detector, storageVars>>
    /\ scans[s].pc = "recognize"
    /\ LET rec == pendingAfterScan(text)
       IN  /\ ocrText' = rec.ocrText
           /\ selectedProductId' = rec.selectedProductId
           /\ kgInput' = rec.kgInput
    /\ mode' = "confirm"
    /\ loading' = FALSE
    /\ scans' = Finish(s)
    /\ UNCHANGED <<variant, open, opens, error, workerReady, workerPromise,
                   workerInstance, workerRef, workers, termCalls, termPending,
                   waiters, emitted>>

\* fault model: a handleScan that drops the engine handle when recognize throws
RecognizeFailDropsHandle(s) ==
    /\ UNCHANGED <<cameraVars, call, detector, storageVars>>
    /\ scans[s].pc = "recognize"
    /\ scanFails(s, IF variant = "server" THEN "OCR failed" ELSE EngineError)
    /\ workerInstance' = 0
    /\ workerPromise' = 0
    /\ workerRef' = 0
    /\ UNCHANGED <<variant, open, opens, workerReady, workers, termCalls,
                   termPending, waiters, emitted>>

\* recognize throws, or /api/ocr answers with a status that is not OK
RecognizeFail(s) ==
    /\ UNCHANGED <<cameraVars, call, detector, storageVars>>
    /\ scans[s].pc = "recognize"
    /\ scanFails(s, IF variant = "server" THEN "OCR failed" ELSE EngineError)
    /\ UNCHANGED <<variant, open, opens, workerReady, workerPromise, workerInstance,
                   workerRef, workers, termCalls, termPending, waiters, emitted>>

(***************************************************************************)
(* ScanModal: the confirm overlay                                          *)
(***************************************************************************)
RescanButtons == {"header", "footer"}

\* every Rescan button clears the confirm state, except the footer button of
\* the server component (ScanModal.tsx 877), which only sets the mode
Rescan(button) ==
    /\ UNCHANGED <<cameraVars, call, detector, storageVars>>
    /\ open
    /\ mode = "confirm"
    /\ mode' = "camera"
    /\ IF variant = "server" /\ button = "footer"
       THEN UNCHANGED <<pendingVars, error>>
       ELSE clearConfirmState /\ error' = Null
    /\ UNCHANGED <<variant, open, opens, loading, workerReady, workerPromise,
                   workerInstance, workerRef, workers, termCalls, termPending,
                   waiters, scans, emitted>>

ProductIds == {PRODUCTS[i].id : i \in 1..Len(PRODUCTS)}

\* the product <select>: "" or the id of a catalog product
SelectProduct(id) ==
    /\ UNCHANGED <<cameraVars, call, detector, storageVars>>
    /\ open
    /\ mode = "confirm"
    /\ selectedProductId' = id
    /\ UNCHANGED <<variant, open, opens, mode, loading, error, ocrText, kgInput,
                   workerReady, workerPromise, workerInstance, workerRef, workers,
                   termCalls, termPending, waiters, scans, emitted>>

\* the weight <input>
SetKgInput(value) ==
    /\ UNCHANGED <<cameraVars, call, detector, storageVars>>
    /\ open
    /\ mode = "confirm"
    /\ kgInput' = value
    /\ UNCHANGED <<variant, open, opens, mode, loading, error, ocrText,
                   selectedProductId, workerReady, workerPromise, workerInstance,
                   workerRef, workers, termCalls, termPending, waiters, scans, emitted>>

\* fault model: a weight check without the 0.05 kg minimum
weightInvalidNoMinimum(kg) == kg.nan \/ kg.milli <= 0 \/ kg.milli > 50000

\* fault model: a weight check that excludes the limits 0.05 kg and 50 kg
weightInvalidExclusive(kg) == kg.nan \/ kg.milli <= 50 \/ kg.milli >= 50000

\* !Number.isFinite(kg) || kg <= 0 || kg < 0.05 || kg > 50
weightInvalid(kg) == kg.nan \/ kg.milli <= 0 \/ kg.milli < 50 \/ kg.milli > 50000

\* products.find((p) => p.id === selectedProductId)
findProduct(products, id) ==
    IF \E i \in 1..Len(products) : products[i].id = id
    THEN CHOOSE i \in 1..Len(products) :
             products[i].id = id /\ \A j \in 1..(i - 1) : products[j].id # id
    ELSE NoProduct

\* fault model: a handleConfirm that emits the record as a manual entry
manualRecord(product, kg) ==
    [productId |-> product.id, productName |-> product.name, kg |-> kg.milli,
     source |-> "manual", rawText |-> ocrText]

\* fault model: a record that carries the product id in place of the name
recordNamedById(product, kg) ==
    [productId |-> product.id, productName |-> product.id, kg |-> kg.milli,
     source |-> "ocr", rawText |-> ocrText]

\* the record handed to onConfirmRecord
confirmRecord(product, kg) ==
    [productId |-> product.id, productName |-> product.name, kg |-> kg.milli,
     source |-> "ocr", rawText |-> ocrText]

(***************************************************************************)
(* src/lib/storage.ts: the sessions kept in localStorage, and the          *)
(* handleAddRecord of the session page.  An item is absent or holds the    *)
(* JSON text of an array of sessions; uid() hands out fresh ids.           *)
(***************************************************************************)
MAX_SESSIONS == 10

\* window.localStorage.getItem of a key never set
NoItem == [present |-> FALSE]

\* fault model: a store that keeps every session
keepAll(sessions, n) == sessions

\* Array.prototype.slice(0, n)
slice(sessions, n) == SubSeq(sessions, 1, Min2(Len(sessions), n))

safeParse(raw) == IF ~raw.present THEN <<>> ELSE raw.json

loadSessions == safeParse(localStorage)

\* the item saveSessions writes
saveSessions(sessions) == [present |-> TRUE, json |-> slice(sessions, MAX_SESSIONS)]

\* what Array.prototype.find returns when no element matches
Undefined == [undefined |-> TRUE]

\* Array.prototype.find on the id: the first session with that id
findById(sessions, id) ==
    LET found == SelectSeq(sessions, LAMBDA s : s.id = id)
    IN  IF found = <<>> THEN Undefined ELSE Head(found)

getSessionById(id) == findById(loadSessions, id)

\* createSession up to saveSessions: the id it returns and the list it saves
createSession ==
    LET session == [id |-> uidCount + 1, records |-> <<>>]
    IN  [id |-> session.id, next |-> slice(<<session>> \o loadSessions, MAX_SESSIONS)]

\* the list deleteSession saves
deleteSession(sessionId) == SelectSeq(loadSessions, LAMBDA s : s.id # sessionId)

\* fault model: an addRecord that appends the record
addRecordLast(sessionId, record) ==
    [i \in 1..Len(loadSessions) |->
        IF loadSessions[i].id = sessionId
        THEN [loadSessions[i] EXCEPT !.records = Append(@, record)]
        ELSE loadSessions[i]]

\* the list addRecord saves and returns
addRecord(sessionId, record) ==
    [i \in 1..Len(loadSessions) |->
        IF loadSessions[i].id = sessionId
        THEN [loadSessions[i] EXCEPT !.records = <<record>> \o @]
        ELSE loadSessions[i]]

\* fault model: a deleteRecord that removes the record from every session
deleteRecordEverywhere(sessionId, recordId) ==
    [i \in 1..Len(loadSessions) |->
        [loadSessions[i] EXCEPT !.records = SelectSeq(@, LAMBDA r : r.id # recordId)]]

\* the list deleteRecord saves and returns
deleteRecord(sessionId, recordId) ==
    [i \in 1..Len(loadSessions) |->
        IF loadSessions[i].id = sessionId
        THEN [loadSessions[i] EXCEPT !.records = SelectSeq(@, LAMBDA r : r.id # recordId)]
        ELSE loadSessions[i]]

\* sessions.find((s) => s.id === sessionId) of the session page
pageSession == findById(page.sessions, page.sessionId)

\* handleAddRecord of the session page (ts, which only the display reads, is
\* left out)
handleAddRecord(data) ==
    IF pageSession = Undefined
    THEN UNCHANGED storageVars
    ELSE LET record == ("id" :> (uidCount + 1)) @@ data
             next == addRecord(pageSession.id, record)
         IN  /\ uidCount' = uidCount + 1
             /\ localStorage' = saveSessions(next)
             /\ page' = [page EXCEPT !.sessions = next]

\* onConfirmRecord={(record) => handleAddRecord({ ...record, source: "ocr" })}
onConfirmRecord(record) == handleAddRecord([record EXCEPT !.source = "ocr"])

\* the validation of handleConfirm: the error message, Null when it passes
confirmError(kg) ==
    IF selectedProductId = ""
    THEN (IF variant = "server" THEN "Vui long chon san pham."
          ELSE "Please select a product.")
    ELSE IF weightInvalid(kg)
    THEN (IF variant = "server" THEN "Khoi luong khong hop le (0.05 - 50 kg)."
          ELSE "Weight is invalid (0.05 - 50 kg).")
    ELSE IF findProduct(PRODUCTS, selectedProductId) = NoProduct
    THEN (IF variant = "server" THEN "San pham khong hop le." ELSE "Invalid product.")
    ELSE Null

handleConfirm ==
    /\ UNCHANGED <<cameraVars, call, detector>>
    /\ open
    /\ mode = "confirm"
    /\ LET kg == parseFloat(kgInput)
           message == confirmError(kg)
       IN  IF message # Null
           THEN /\ error' = message
                /\ UNCHANGED <<mode, pendingVars, emitted, storageVars>>
           ELSE /\ Len(emitted) < MaxEmit
                /\ emitted' = Append(emitted,
                       confirmRecord(PRODUCTS[findProduct(PRODUCTS, selectedProductId)], kg))
                /\ onConfirmRecord(
                       confirmRecord(PRODUCTS[findProduct(PRODUCTS, selectedProductId)], kg))
                /\ mode' = "camera"
                /\ clearConfirmState
                /\ error' = Null
    /\ UNCHANGED <<variant, open, opens, loading, workerReady, workerPromise,
                   workerInstance, workerRef, workers, termCalls, termPending,
                   waiters, scans>>

(***************************************************************************)
(* The specification                                                       *)
(***************************************************************************)
Next ==
    \/ Open
    \/ handleClose
    \/ \E h \in Workers : InitDone(h)
    \/ \E h \in Workers : InitFail(h)
    \/ \E h \in Workers : TerminateDone(h)
    \/ handleScan
    \/ \E s \in ScanIds : CaptureOk(s)
    \/ \E s \in ScanIds, message \in captureErrors(variant) : CaptureFail(s, message)
    \/ \E s \in ScanIds, text \in Texts : RecognizeOk(s, text)
    \/ \E s \in ScanIds : RecognizeFail(s)
    \/ \E button \in RescanButtons : Rescan(button)
    \/ \E id \in ProductIds \cup {""} : SelectProduct(id)
    \/ \E value \in KgInputs : SetKgInput(value)
    \/ handleConfirm

Spec == Init /\ [][Next]_vars

(***************************************************************************)
(* One session of the modal, with the wider label texts and weight inputs  *)
(***************************************************************************)
OpenOnce == opens = 0 /\ Open

NextSession ==
    \/ OpenOnce
    \/ handleClose
    \/ \E h \in Workers : InitDone(h)
    \/ \E h \in Workers : InitFail(h)
    \/ \E h \in Workers : TerminateDone(h)
    \/ handleScan
    \/ \E s \in ScanIds : CaptureOk(s)
    \/ \E s \in ScanIds, message \in captureErrors(variant) : CaptureFail(s, message)
    \/ \E s \in ScanIds, text \in LabelTexts : RecognizeOk(s, text)
    \/ \E s \in ScanIds : RecognizeFail(s)
    \/ \E button \in RescanButtons : Rescan(button)
    \/ \E id \in ProductIds \cup {""} : SelectProduct(id)
    \/ \E value \in WeightInputs : SetKgInput(value)
    \/ handleConfirm

SpecSession == Init /\ [][NextSession]_vars

(***************************************************************************)
(* One session of the modal, with the answers of the camera                *)
(***************************************************************************)
NextCamera ==
    \/ OpenOnce
    \/ handleClose
    \/ \E k \in Streams : StreamGranted(k)
    \/ \E k \in Streams : StreamDenied(k)
    \/ \E h \in Workers : InitDone(h)
    \/ \E h \in Workers : InitFail(h)
    \/ \E h \in Workers : TerminateDone(h)
    \/ handleScan
    \/ \E s \in ScanIds : CaptureOk(s)
    \/ \E s \in ScanIds, message \in captureErrors(variant) : CaptureFail(s, message)
    \/ \E s \in ScanIds, text \in Texts : RecognizeOk(s, text)
    \/ \E s \in ScanIds : RecognizeFail(s)
    \/ \E button \in RescanButtons : Rescan(button)
    \/ \E id \in ProductIds \cup {""} : SelectProduct(id)
    \/ \E value \in KgInputs : SetKgInput(value)
    \/ handleConfirm

SpecCamera == Init /\ [][NextCamera]_vars

(***************************************************************************)
(* The text functions called on their own: normalizeText, matchProduct and *)
(* parseKg applied to bounded texts and small catalogs                     *)
(***************************************************************************)
\* longest generated text for normalizeText and matchProduct
MaxTextLen == 3

\* longest generated text for parseKg
MaxKgTextLen == 3

\* longest string given to similarity
MaxSimLen == 3

Strings(alphabet, n) == UNION {[1..k -> alphabet] : k \in 0..n}

FOO == <<"F", "O", "O">>

BAR == <<"B", "A", "R">>

ExampleLabel ==
    <<"s", "o", "m", "e", " ", "F", "O", "O", " ", "l", "a", "b", "e", "l">>

ExampleWeight ==
    <<"W", "e", "i", "g", "h", "t", ":", " ", "2", ",", "3", "5", "0", " ", "K", "G">>

ExampleNoUnit == <<"n", "o", " ", "u", "n", "i", "t", " ", "h", "e", "r", "e">>

CatalogAB ==
    << [id |-> "A", name |-> "A", keywords |-> <<FOO>>],
       [id |-> "B", name |-> "B", keywords |-> <<BAR>>] >>

CatalogBA ==
    << [id |-> "B", name |-> "B", keywords |-> <<BAR>>],
       [id |-> "A", name |-> "A", keywords |-> <<FOO>>] >>

\* a short keyword before a longer one, and a product with two keywords
CatalogShortLong ==
    << [id |-> "A", name |-> "A", keywords |-> << <<"F", "O">> >>],
       [id |-> "B", name |-> "B", keywords |-> << <<"F", "O", "O", "T">>, BAR >>] >>

FOOT == <<"F", "O", "O", "T">>

FOOD == <<"F", "O", "O", "D">>

\* keywords of two products at the same distance from a misread label
CatalogTie ==
    << [id |-> "A", name |-> "A", keywords |-> <<FOOT>>],
       [id |-> "B", name |-> "B", keywords |-> <<FOOD, <<"F", "O", "O", "L">> >>] >>

CatalogTieReversed ==
    << [id |-> "B", name |-> "B", keywords |-> <<FOOD, <<"F", "O", "O", "L">> >>],
       [id |-> "A", name |-> "A", keywords |-> <<FOOT>>] >>

CatalogEmpty == <<>>

\* a product without keywords before a product with one
CatalogNoKeywords ==
    << [id |-> "A", name |-> "A", keywords |-> <<>>],
       [id |-> "B", name |-> "B", keywords |-> <<FOO>>] >>

Catalogs ==
    {CatalogAB, CatalogBA, CatalogShortLong, CatalogTie, CatalogTieReversed,
     CatalogEmpty, CatalogNoKeywords, PRODUCTS}

NormalizeInputs == Strings({"a", "A-uml", "o-uml", " ", "LF", "uml"}, MaxTextLen)

MatchInputs ==
    Strings({"F", "O", "0", "T", " "}, MaxTextLen)
        \cup {ExampleLabel, TextMaksa, <<"F", "O", "O", "D">>,
              <<"B", "A", "R", " ", "F", "O", "O">>, <<"F", "0", "O", "T">>,
              <<"b", "a", "r">>, <<"S", "I", "A", "N", "P", "A", "A">>,
              <<"M", "A", "K", "5", "A">>, <<"B", "A", "F", "O", "O", "T">>,
              <<"F", "O", "O", "0">>, <<"F", "0", "O", "D">>}

KgInputTexts ==
    Strings({"1", ".", ",", " ", "k", "G"}, MaxKgTextLen)
        \cup {ExampleWeight, ExampleNoUnit, TextMaksa, TextZero,
              <<"1", ".", "5", "k", "g", " ", "3", " ", "K", "G">>,
              <<"1", ".", "1", "k", "G">>, <<"1", ",", "1", " ", "k", "G">>,
              <<"1", ".", "1", ".", "1", "k", "G">>, <<"1", "1", ".", "k", "G">>,
              <<"1", "K", "G", "S", " ", "2", "K", "G">>,
              <<"7", " ", "k", "g", "LF", "8", " ", "k", "g">>,
              <<"1", "2", " ", "K", "G", "A-uml">>}

\* the strings similarity is applied to, in pairs
SimilarityInputs ==
    Strings({"F", "O"}, MaxSimLen)
        \cup {<<"T">>, <<"O", "T">>, <<"T", "O", "O">>, <<"F", "O", "O", "T">>,
              <<"F", "O", "O", "D">>}

holdModal ==
    UNCHANGED <<variant, open, opens, modalVars, workerReady, workerPromise,
                workerInstance, workerRef, workers, termCalls, termPending,
                waiters, scans, emitted, cameraVars, storageVars>>

\* each behaviour applies one function to one input
callNormalizeText(text) ==
    /\ call = NoCall
    /\ call' = [fn |-> "normalizeText", text |-> text, result |-> normalizeText(text)]
    /\ holdModal
    /\ UNCHANGED detector

callMatchProduct(text, products) ==
    /\ call = NoCall
    /\ call' = [fn |-> "matchProduct", text |-> text, products |-> products,
                result |-> matchProduct(text, products)]
    /\ holdModal
    /\ UNCHANGED detector

callSimilarity(a, b) ==
    /\ call = NoCall
    /\ call' = [fn |-> "similarity", a |-> a, b |-> b, result |-> similarity(a, b)]
    /\ holdModal
    /\ UNCHANGED detector

callParseKg(text) ==
    /\ call = NoCall
    /\ call' = [fn |-> "parseKg", text |-> text, result |-> parseKg(text)]
    /\ holdModal
    /\ UNCHANGED detector

NextText ==
    \/ \E text \in NormalizeInputs : callNormalizeText(text)
    \/ \E text \in MatchInputs, products \in Catalogs : callMatchProduct(text, products)
    \/ \E text \in KgInputTexts : callParseKg(text)
    \/ \E a \in SimilarityInputs, b \in SimilarityInputs : callSimilarity(a, b)

SpecText == Init /\ [][NextText]_vars

(***************************************************************************)
(* The storage functions called one after another, as the home page        *)
(* (createSession, deleteSession) and the session page (addRecord,         *)
(* deleteRecord) call them.                                                *)
(***************************************************************************)
\* uid() is called at most this many times
MaxUid == 12

\* addRecord is not called on a session that holds this many records
MaxRecords == 2

\* session ids given to the storage functions: the two oldest sessions and an
\* id no session has
SessionArgs == {1, 2, 99}

\* record ids given to the storage functions, the last one never stored
RecordArgs == {101, 102, 103}

\* a record as handleAddRecord builds it from a manual entry (101) or from a
\* confirmed scan (102)
StoredRecord(id) ==
    IF id = 101
    THEN [id |-> id, productId |-> PRODUCTS[1].id, productName |-> PRODUCTS[1].name,
          kg |-> 1500, source |-> "manual"]
    ELSE [id |-> id, productId |-> PRODUCTS[2].id, productName |-> PRODUCTS[2].name,
          kg |-> 50, source |-> "ocr", rawText |-> TextMaksa]

holdSession ==
    UNCHANGED <<variant, open, opens, modalVars, workerReady, workerPromise,
                workerInstance, workerRef, workers, termCalls, termPending,
                waiters, scans, emitted, cameraVars, detector, page>>

callCreateSession ==
    /\ uidCount < MaxUid
    /\ uidCount' = uidCount + 1
    /\ localStorage' = saveSessions(createSession.next)
    /\ call' = [fn |-> "createSession", result |-> createSession.id]
    /\ holdSession

callDeleteSession(sessionId) ==
    /\ localStorage' = saveSessions(deleteSession(sessionId))
    /\ call' = [fn |-> "deleteSession", sessionId |-> sessionId]
    /\ UNCHANGED uidCount
    /\ holdSession

callAddRecord(sessionId, record) ==
    /\ getSessionById(sessionId) # Undefined => Len(getSessionById(sessionId).records) < MaxRecords
    /\ localStorage' = saveSessions(addRecord(sessionId, record))
    /\ call' = [fn |-> "addRecord", sessionId |-> sessionId, record |-> record,
                result |-> addRecord(sessionId, record)]
    /\ UNCHANGED uidCount
    /\ holdSession

callDeleteRecord(sessionId, recordId) ==
    /\ localStorage' = saveSessions(deleteRecord(sessionId, recordId))
    /\ call' = [fn |-> "deleteRecord", sessionId |-> sessionId, recordId |-> recordId,
                result |-> deleteRecord(sessionId, recordId)]
    /\ UNCHANGED uidCount
    /\ holdSession

NextStorage ==
    \/ callCreateSession
    \/ \E sessionId \in SessionArgs : callDeleteSession(sessionId)
    \/ \E sessionId \in SessionArgs, id \in RecordArgs \ {103} :
           callAddRecord(sessionId, StoredRecord(id))
    \/ \E sessionId \in SessionArgs, recordId \in RecordArgs :
           callDeleteRecord(sessionId, recordId)

SpecStorage == Init /\ [][NextStorage]_vars

(***************************************************************************)
(* The session page with its scan modal, and the home page open in another *)
(* tab of the same browser: both read and write the same localStorage.     *)
(***************************************************************************)
\* handleDelete of the home page in the other tab, confirmed by the operator
otherTabDeletes(sessionId) == callDeleteSession(sessionId)

NextPage ==
    \/ NextCamera
    \/ otherTabDeletes(page.sessionId)

SpecPage == Init /\ [][NextPage]_vars

(***************************************************************************)
(* src/app/api/ocr/route.ts: POST.  A header value is a sequence of        *)
(* tokens; the body is a form that cannot be parsed, or the value of its   *)
(* field image: none, a string, or a file of some size.                    *)
(***************************************************************************)
\* fault model: a size cap of three decimal megabytes
ThreeMillionBytes == 3 * 1000 * 1000

MAX_FILE_BYTES == 3 * 1024 * 1024

\* process.env values: not set, or set
EnvValues == {<<>>, <<"v">>}

\* req.headers.get("content-type"): no header, or its value
ContentTypes ==
    {<<>>, <<"application/json">>, <<"multipart/form-data">>,
     <<"multipart/form-data", ";", "boundary=x">>}

\* the body: formData() throws on it, or what formData.get("image") returns
Bodies ==
    {[kind |-> "invalid"], [kind |-> "none"], [kind |-> "string"]}
        \cup {[kind |-> "file", size |-> n] :
                 n \in {0, MAX_FILE_BYTES - 1, MAX_FILE_BYTES, MAX_FILE_BYTES + 1}}

\* client.chat.completions.create: resolves with a text, or rejects
UpstreamOutcomes == {"text", "error"}

UpstreamError == "upstream error"

\* NextResponse.json({ error }, { status }) before any upstream call
reject(status, message) == [status |-> status, error |-> message, upstream |-> 0]

\* the response of POST and the number of upstream calls it made
POST(apiKey, model, contentType, body, outcome) ==
    IF apiKey = <<>>
    THEN reject(500, "Missing DEEPINFRA_API_KEY environment variable")
    ELSE IF model = <<>>
    THEN reject(500, "Missing DEEPINFRA_MODEL environment variable")
    ELSE IF ~includes(contentType, <<"multipart/form-data">>)
    THEN reject(400, "Content-Type must be multipart/form-data")
    ELSE IF body.kind = "invalid"
    THEN reject(400, "Invalid multipart/form-data payload")
    ELSE IF body.kind # "file"
    THEN reject(400, "Field 'image' is required and must be a file")
    ELSE IF body.size > MAX_FILE_BYTES
    THEN reject(413, "Image is too large. Max size is 3MB")
    ELSE IF outcome = "error"
    THEN [status |-> 500, error |-> UpstreamError, upstream |-> 1]
    ELSE [status |-> 200, error |-> Null, upstream |-> 1]

callPOST(apiKey, model, contentType, body, outcome) ==
    /\ call = NoCall
    /\ call' = [fn |-> "POST", apiKey |-> apiKey, model |-> model,
                contentType |-> contentType, body |-> body, outcome |-> outcome,
                result |-> POST(apiKey, model, contentType, body, outcome)]
    /\ holdModal
    /\ UNCHANGED detector

NextRoute ==
    \E apiKey \in EnvValues, model \in EnvValues, contentType \in ContentTypes,
       body \in Bodies, outcome \in UpstreamOutcomes :
        callPOST(apiKey, model, contentType, body, outcome)

SpecRoute == Init /\ [][NextRoute]_vars

(***************************************************************************)
(* The Stability Detector (spec 4.5): the sampling loop that triggers a    *)
(* capture when the scene is still.  Frames are one brightness value, their*)
(* difference is the absolute difference of the two values.                *)
(***************************************************************************)
\* the clock stops here (ms)
MaxNow == 2300

\* captures the detector may trigger
MaxTriggers == 2

STABILITY_THRESHOLD == 12

STABLE_MS == 500

COOLDOWN_MS == 800

SAMPLE_INTERVAL_MS == 120

\* the time between two ticks of the loop
TickSteps == {100, 500}

Frames == {0, 11, 12}

frameDiff(a, b) == IF a >= b THEN a - b ELSE b - a

\* a detector starts in idle-waiting: no stability timer is running
detectorStarted(d) ==
    [d EXCEPT !.active = TRUE, !.stableSince = None, !.quietSince = None,
              !.motionAt = None]

\* fault model: a teardown that keeps the stored sample
teardownKeepsSample(d) == [d EXCEPT !.active = FALSE]

\* tearing down: no further ticks, the stored sample is dropped
detectorTornDown(d) == [d EXCEPT !.active = FALSE, !.prev = None]

\* fault model: a timer that motion does not reset
timerAfterMotionKept(d) == d.stableSince

\* frameDiff >= 12 resets the stability timer
timerAfterMotion(d) == None

\* fault model: a cooldown that is not started
cooldownSkipped(t) == t

\* the end of the cooldown window that starts at time t
cooldownEnd(t) == t + COOLDOWN_MS

\* one tick of the loop at time t with the frame the camera shows
detectorTick(d, t, frame) ==
    IF d.mode # "camera" \/ d.lock \/ t < d.cooldownUntil
    THEN [d EXCEPT !.now = t]
    ELSE IF d.lastSampleAt # None /\ t - d.lastSampleAt < SAMPLE_INTERVAL_MS
    THEN [d EXCEPT !.now = t]
    ELSE IF d.prev = None
    THEN [d EXCEPT !.now = t, !.lastSampleAt = t, !.prev = frame,
                   !.prevSession = d.session]
    ELSE IF frameDiff(d.prev, frame) < STABILITY_THRESHOLD
    THEN LET since == IF d.stableSince = None THEN t ELSE d.stableSince
             fire == d.ready /\ ~d.lock /\ t - since > STABLE_MS
         IN  [d EXCEPT !.now = t, !.lastSampleAt = t, !.prev = frame,
                       !.prevSession = d.session,
                       !.stableSince = since,
                       !.quietSince = IF d.quietSince = None THEN t ELSE d.quietSince,
                       !.lock = fire,
                       !.triggers = IF fire THEN d.triggers + 1 ELSE d.triggers]
    ELSE [d EXCEPT !.now = t, !.lastSampleAt = t, !.prev = frame,
                   !.prevSession = d.session,
                   !.stableSince = timerAfterMotion(d), !.quietSince = None,
                   !.motionAt = t]

holdScanner ==
    UNCHANGED <<variant, open, opens, modalVars, workerReady, workerPromise,
                workerInstance, workerRef, workers, termCalls, termPending,
                waiters, scans, emitted, cameraVars, call, storageVars>>

\* a session opens in camera mode
DetOpen ==
    /\ detector.mode = "closed"
    /\ detector.session < MaxOpens
    /\ detector' = detectorStarted([detector EXCEPT !.mode = "camera",
                                                    !.session = detector.session + 1])
    /\ holdScanner

\* the session closes
DetClose ==
    /\ detector.mode # "closed"
    /\ detector' = detectorTornDown([detector EXCEPT !.mode = "closed"])
    /\ holdScanner

\* the OCR engine becomes ready
DetEngineReady ==
    /\ ~detector.ready
    /\ detector' = [detector EXCEPT !.ready = TRUE]
    /\ holdScanner

DetTick(dt, frame) ==
    /\ detector.active
    /\ detector.now + dt <= MaxNow
    /\ detector.triggers < MaxTriggers
    /\ detector' = detectorTick(detector, detector.now + dt, frame)
    /\ holdScanner

\* time passes while no loop is scheduled
DetWait(dt) ==
    /\ ~detector.active
    /\ detector.session > 0
    /\ detector.now + dt <= MaxNow
    /\ detector' = [detector EXCEPT !.now = detector.now + dt]
    /\ holdScanner

\* the capture pipeline completes: the lock is released, the timer reset and
\* the cooldown started; on success the mode leaves camera
DetCaptureDone(ok) ==
    /\ detector.lock
    /\ LET d == [detector EXCEPT !.lock = FALSE,
                                 !.completions = detector.completions + 1,
                                 !.stableSince = None,
                                 !.cooldownUntil = cooldownEnd(detector.now),
                                 !.doneAt = detector.now]
       IN  detector' = IF ok /\ d.mode = "camera"
                       THEN detectorTornDown([d EXCEPT !.mode = "confirm"])
                       ELSE d
    /\ holdScanner

\* confirm mode is left: by a confirmation, which starts the cooldown, or by
\* a rescan
DetResume(confirmed) ==
    /\ detector.mode = "confirm"
    /\ detector' = detectorStarted(
           [detector EXCEPT !.mode = "camera",
                            !.cooldownUntil = IF confirmed THEN cooldownEnd(detector.now)
                                              ELSE detector.cooldownUntil])
    /\ holdScanner

NextDetector ==
    \/ DetOpen
    \/ DetClose
    \/ DetEngineReady
    \/ \E dt \in TickSteps, frame \in Frames : DetTick(dt, frame)
    \/ \E dt \in TickSteps : DetWait(dt)
    \/ \E ok \in BOOLEAN : DetCaptureDone(ok)
    \/ \E confirmed \in BOOLEAN : DetResume(confirmed)

SpecDetector == Init /\ [][NextDetector]_vars

(***************************************************************************)
(* Properties                                                              *)
(***************************************************************************)
PendingEmpty == ocrText = <<>> /\ selectedProductId = "" /\ kgInput = <<>>

InFlight == {s \in ScanIds : scans[s].pc \in {"capture", "getWorker", "recognize"}}

\* C1: single-flight initialization -- getWorker calls issued while no handle is
\* cached and an initialization is in flight start no second createWorker, so
\* the worker singleton never has two initializations in flight.
SingleFlightInit ==
    variant = "singleton" => Cardinality({h \in Workers : workers[h] = "init"}) <= 1

\* C2: initialization failures are not cached -- when an in-flight
\* initialization of the worker singleton fails, every caller awaiting it is
\* released with the failure, the in-flight marker is cleared and no handle is
\* cached.
InitFailureNotCached ==
    [][\A h \in Workers :
          (variant = "singleton" /\ InitFail(h)) =>
              /\ workerPromise' = 0
              /\ workerInstance' = 0
              /\ \A i \in 1..Len(waiters') : waiters'[i].p # h]_vars

\* a terminateWorker call of the worker singleton completes: at once when it
\* finds no cached handle, else when terminate() has resolved
releaseCompletes ==
    /\ variant = "singleton"
    /\ \/ handleClose /\ workerInstance = 0
       \/ \E h \in Workers : TerminateDone(h)

\* C3: release (terminateWorker), called in any manager state including while
\* an initialization is in flight, leaves both the cached handle and the
\* in-flight initialization marker cleared once it completes.
ReleaseClearsHandleAndMarker ==
    [][releaseCompletes => (workerInstance' = 0 /\ workerPromise' = 0)]_vars

\* C4: at most one capture (handleScan run) is in flight at any time, over every
\* sequence of scan, close, reopen, rescan and confirm commands.
AtMostOneCaptureInFlight == Cardinality(InFlight) <= 1

\* C5: in every reachable state, mode = camera implies that the pending scan
\* record is empty (raw text, selected product id and weight input).
CameraModeHasEmptyPending == mode = "camera" => PendingEmpty

\* C6: mode confirm is entered only as the last step of a capture whose
\* recognition succeeded, and while the mode is confirm the raw text of the
\* pending record is the text that recognition returned: every step that ends
\* in confirm mode is either the completion of a successful recognition that
\* stores its text, or starts in confirm mode and keeps the raw text.
ConfirmOnlyAfterRecognition ==
    [][mode' = "confirm" =>
          \/ mode = "confirm" /\ ocrText' = ocrText
          \/ \E s \in ScanIds, t \in Texts :
                 RecognizeOk(s, t) /\ ocrText' = t /\ scans'[s].pc = "done"]_vars

\* a confirm-mode state reached by a recognition whose text matches no product
\* and holds no weight
ConfirmWithUnmatchedText ==
    /\ mode = "confirm"
    /\ ocrText = <<"X", "Y">>
    /\ selectedProductId = ""
    /\ kgInput = <<>>
    /\ \E s \in ScanIds : scans[s].pc = "done"

\* a capture fails: captureFrame / captureAndProcess throws, the worker is
\* unavailable, recognize throws or /api/ocr answers with an error
captureFails ==
    \E s \in ScanIds :
        \/ \E message \in captureErrors(variant) : CaptureFail(s, message)
        \/ RecognizeFail(s)
        \/ \E h \in Workers : InitFail(h) /\ s \in ScansOn(h) /\ scans'[s].pc = "done"

\* C7: if any step of a capture fails, an error message is set, the mode stays
\* camera and the pending record stays empty.
CaptureFailureKeepsCamera ==
    [][captureFails =>
          /\ error' # Null
          /\ mode = "camera" /\ mode' = "camera"
          /\ ocrText' = <<>> /\ selectedProductId' = "" /\ kgInput' = <<>>]_vars

\* C8: every rescan command issued in confirm mode (either Rescan button) moves
\* the modal to camera mode and clears the pending record.
RescanClearsPending ==
    [][(\E button \in RescanButtons : Rescan(button)) =>
          /\ mode' = "camera"
          /\ ocrText' = <<>> /\ selectedProductId' = "" /\ kgInput' = <<>>]_vars

\* the pending record passes validation: a catalog product is selected and the
\* weight is a finite number from 0.05 to 50 kg
ValidPending ==
    /\ selectedProductId \in ProductIds
    /\ ~parseFloat(kgInput).nan
    /\ parseFloat(kgInput).milli >= 50
    /\ parseFloat(kgInput).milli <= 50000

\* the catalog product with the selected id
SelectedProduct == CHOOSE i \in 1..Len(PRODUCTS) : PRODUCTS[i].id = selectedProductId

\* C9: a confirm command on a valid pending record emits exactly one record,
\* with productId and productName of the selected catalog product, the entered
\* kg, source "ocr" and rawText equal to the pending raw text, then clears the
\* pending record and sets the mode to camera.
ValidConfirmEmitsOneRecord ==
    [][(handleConfirm /\ ValidPending) =>
          /\ emitted' = Append(emitted,
                 [productId |-> selectedProductId,
                  productName |-> PRODUCTS[SelectedProduct].name,
                  kg |-> parseFloat(kgInput).milli,
                  source |-> "ocr",
                  rawText |-> ocrText])
          /\ ocrText' = <<>> /\ selectedProductId' = "" /\ kgInput' = <<>>
          /\ mode' = "camera"]_vars

\* a valid confirm has happened: the operator changed the matched product, and
\* the record carries the scanned weight and text
RecordEmitted ==
    /\ Len(emitted) = 1
    /\ emitted[1] = [productId |-> "10550", productName |-> PRODUCTS[1].name,
                     kg |-> 2100, source |-> "ocr", rawText |-> TextMaksa]
    /\ mode = "camera"
    /\ PendingEmpty

\* C10: a confirm command that fails validation emits no record, leaves the
\* mode confirm and the pending record unchanged; only the error message
\* changes.
InvalidConfirmKeepsPending ==
    [][(handleConfirm /\ ~ValidPending) =>
          /\ emitted' = emitted
          /\ mode' = "confirm"
          /\ UNCHANGED pendingVars
          /\ error' # Null
          /\ UNCHANGED <<variant, open, opens, loading, workerReady, workerPromise,
                         workerInstance, workerRef, workers, termCalls, termPending,
                         waiters, scans>>]_vars

\* a confirm has been rejected for a weight below the minimum, the record kept
ConfirmRejected ==
    /\ mode = "confirm"
    /\ error = "Weight is invalid (0.05 - 50 kg)."
    /\ ocrText = TextMaksa
    /\ selectedProductId = "10567"
    /\ kgInput = <<"0", ".", "0", "4">>
    /\ emitted = <<>>

\* the weights the operator may confirm: a finite number of kilograms from
\* 0.05 to 50, both limits included
WeightInRange(kg) == ~kg.nan /\ kg.milli >= 50 /\ kg.milli <= 50000

ConfirmErrors ==
    {"Please select a product.", "Weight is invalid (0.05 - 50 kg).", "Invalid product.",
     "Vui long chon san pham.", "Khoi luong khong hop le (0.05 - 50 kg).",
     "San pham khong hop le."}

\* C11: weight range -- with a product of the catalog selected, a confirm is
\* accepted exactly when the weight field parses to a finite number of
\* kilograms with 0.05 <= kg <= 50: a confirm that emits a record had such a
\* weight, and a confirm that is rejected had not.  0.04, 50.01, a missing
\* weight, zero and a negative weight are rejected; 0.05 and 50 are accepted.
ConfirmAcceptsWeightInRange ==
    /\ \A v \in {<<"0", ".", "0", "4">>, <<"5", "0", ".", "0", "1">>, <<>>, <<"0">>,
                 <<"-", "1">>} : weightInvalid(parseFloat(v))
    /\ \A v \in {<<"0", ".", "0", "5">>, <<"5", "0">>} : ~weightInvalid(parseFloat(v))
    /\ [][(open /\ mode = "confirm" /\ selectedProductId \in ProductIds) =>
            /\ emitted' # emitted => WeightInRange(parseFloat(kgInput))
            /\ (error' \in ConfirmErrors /\ error' # error /\ emitted' = emitted)
                 => ~WeightInRange(parseFloat(kgInput))]_vars

\* a record with the smallest accepted weight, 0.05 kg, has been emitted
SmallestWeightAccepted == Len(emitted) = 1 /\ emitted[1].kg = 50

\* C12: product validity -- no record is emitted unless a product is selected
\* and its id is in the catalog: every emitted record carries the id of a
\* catalog product and the name of that product, and the record a confirm
\* emits is the one of the product selected at that moment.
EmittedRecordsNameCatalogProducts ==
    /\ [](\A i \in 1..Len(emitted) :
             \E p \in 1..Len(PRODUCTS) :
                 /\ emitted[i].productId = PRODUCTS[p].id
                 /\ emitted[i].productName = PRODUCTS[p].name)
    /\ [][emitted' # emitted =>
            /\ selectedProductId \in ProductIds
            /\ emitted'[Len(emitted')].productId = selectedProductId]_vars

\* the operator changed the matched product by hand, and the record names it
RecordOfHandPickedProduct ==
    /\ Len(emitted) = 1
    /\ emitted[1].productId = "10550"
    /\ emitted[1].productName = "SIANPAA"
    /\ emitted[1].rawText = TextMaksa

(***************************************************************************)
(* Properties of the text functions                                        *)
(***************************************************************************)
\* needle occurs in hay as a run of consecutive characters
IsSubstring(needle, hay) ==
    \E i \in 1..(Len(hay) + 1), j \in 0..Len(hay) : SubSeq(hay, i, j) = needle

\* the products of a catalog with a normalized keyword inside the normalized text
ProductsContained(text, products) ==
    {i \in 1..Len(products) :
        \E k \in 1..Len(products[i].keywords) :
            IsSubstring(normalizeText(products[i].keywords[k]), normalizeText(text))}

FirstOf(S) == CHOOSE i \in S : \A j \in S : i <= j

\* C13: exact pass -- if at least one product of the catalog has a normalized
\* keyword that is a substring of the normalized text, matchProduct returns
\* the first such product in catalog order with method keyword; for the
\* catalog [A: FOO, B: BAR] and the text "some FOO label" that is product A.
ExactPassReturnsFirstProduct ==
    call.fn = "matchProduct" =>
        /\ ProductsContained(call.text, call.products) # {} =>
              call.result = [product |-> FirstOf(ProductsContained(call.text, call.products)),
                             method |-> "keyword"]
        /\ (call.text = ExampleLabel /\ call.products = CatalogAB) =>
              /\ call.products[call.result.product].id = "A"
              /\ call.result.method = "keyword"

\* the text names BAR before FOO, the catalog lists FOO's product first
FirstInCatalogOrderWins ==
    /\ call.fn = "matchProduct"
    /\ call.text = <<"B", "A", "R", " ", "F", "O", "O">>
    /\ call.products = CatalogAB
    /\ call.result = [product |-> 1, method |-> "keyword"]

\* C14: exact before fuzzy -- matchProduct returns method fuzzy only when no
\* product has a normalized keyword contained in the normalized text, and
\* whenever such a product exists the result is a keyword match of one of
\* them, even if another product has a higher fuzzy similarity.
ExactMatchBeatsFuzzy ==
    call.fn = "matchProduct" =>
        /\ call.result.method = "fuzzy" => ProductsContained(call.text, call.products) = {}
        /\ ProductsContained(call.text, call.products) # {} =>
              /\ call.result.method = "keyword"
              /\ call.result.product \in ProductsContained(call.text, call.products)

\* FOOD contains the keyword FO of product A, while the keyword FOOT of
\* product B is more similar to it (3/4, enough for a fuzzy match)
KeywordWinsOverCloserFuzzy ==
    /\ call.fn = "matchProduct"
    /\ call.text = <<"F", "O", "O", "D">>
    /\ call.products = CatalogShortLong
    /\ call.result = [product |-> 1, method |-> "keyword"]
    /\ levenshtein(<<"F", "O", "O", "T">>, call.text) = 1
    /\ levenshtein(<<"F", "O">>, call.text) = 2

\* the space-separated tokens of s: the maximal runs without a space
TokenSet(s) ==
    {SubSeq(s, p[1], p[2]) :
        p \in {q \in (1..Len(s)) \X (1..Len(s)) :
                  /\ q[1] <= q[2]
                  /\ \A m \in q[1]..q[2] : s[m] # " "
                  /\ (q[1] = 1 \/ s[q[1] - 1] = " ")
                  /\ (q[2] = Len(s) \/ s[q[2] + 1] = " ")}}

\* the best similarity of one keyword against the full text and every token
PairScores(text, products, i, k) ==
    LET normalized == normalizeText(text)
        target == normalizeText(products[i].keywords[k])
    IN  {similarity(target, c) : c \in {normalized} \cup TokenSet(normalized)}

AllScores(text, products) ==
    UNION {UNION {PairScores(text, products, i, k) : k \in 1..Len(products[i].keywords)} :
              i \in 1..Len(products)}

\* a maximum of a set of fractions
IsMaxScore(x, S) == x \in S /\ \A y \in S : x[1] * y[2] >= y[1] * x[2]

\* C15: fuzzy pass -- when no keyword is contained in the text, matchProduct
\* takes the maximum similarity over all (product, keyword) pairs against the
\* full normalized text and each of its tokens: at 0.75 or more the result is
\* method fuzzy with a product owning that maximum, below it the result is no
\* product and method none; F0O against the keyword FOO (2/3) gives none.
FuzzyPassTakesBestAboveThreshold ==
    (call.fn = "matchProduct" /\ ProductsContained(call.text, call.products) = {}) =>
        LET scores == AllScores(call.text, call.products)
            top == IF scores = {} THEN <<0, 1>>
                   ELSE CHOOSE x \in scores : IsMaxScore(x, scores)
        IN  /\ IF 4 * top[1] >= 3 * top[2]
               THEN /\ call.result.method = "fuzzy"
                    /\ call.result.product \in 1..Len(call.products)
                    /\ \E k \in 1..Len(call.products[call.result.product].keywords) :
                          \E x \in PairScores(call.text, call.products,
                                              call.result.product, k) :
                              IsMaxScore(x, scores)
               ELSE call.result = [product |-> NoProduct, method |-> "none"]
            /\ (call.text = <<"F", "0", "O">> /\ call.products = CatalogAB) =>
                  /\ similarity(FOO, normalizeText(call.text)) = <<2, 3>>
                  /\ call.result = [product |-> NoProduct, method |-> "none"]

\* one character of FOOT misread: similarity 3/4, a fuzzy match of product B
FuzzyMatchAtThreshold ==
    /\ call.fn = "matchProduct"
    /\ call.text = <<"F", "0", "O", "T">>
    /\ call.products = CatalogShortLong
    /\ call.result = [product |-> 2, method |-> "fuzzy"]

\* C16: normalizeText is idempotent -- normalizing a normalized text changes
\* nothing, for every input, including texts with white space, accented
\* letters and stand-alone combining marks.
NormalizeTextIdempotent ==
    call.fn = "normalizeText" => normalizeText(call.result) = call.result

\* a text of digits with an optional decimal part
IsNumberText(t) ==
    /\ t # <<>>
    /\ \A i \in 1..Len(t) : IsDigit(t[i]) \/ t[i] = "."
    /\ Cardinality({i \in 1..Len(t) : t[i] = "."}) <= 1
    /\ IsDigit(t[1]) /\ IsDigit(t[Len(t)])

\* after position j of s: optional white space, then KG as a whole word
UnitFollows(s, j) ==
    \E k \in j..Len(s) :
        /\ \A m \in (j + 1)..k : IsSpace(s[m])
        /\ k + 2 <= Len(s) /\ s[k + 1] = "K" /\ s[k + 2] = "G"
        /\ (k + 2 = Len(s) \/ ~IsWordChar(s[k + 3]))

\* the occurrences <<i, j>> of a weight in s, and the first of them
KgOccurrences(s) ==
    {p \in (1..Len(s)) \X (1..Len(s)) :
        /\ p[1] <= p[2]
        /\ IsNumberText(SubSeq(s, p[1], p[2]))
        /\ UnitFollows(s, p[2])}

FirstKgOccurrence(s) ==
    CHOOSE p \in KgOccurrences(s) :
        \A q \in KgOccurrences(s) : p[1] < q[1] \/ (p[1] = q[1] /\ p[2] >= q[2])

\* C17: parseKg returns the number of the first occurrence, in the normalized
\* text with commas replaced by periods, of digits with an optional decimal
\* part, optional white space and the whole word KG, and none when there is
\* no occurrence; "Weight: 2,350 KG" gives 2.35, "no unit here" gives none.
ParseKgReadsFirstOccurrence ==
    call.fn = "parseKg" =>
        LET s == commaToPeriod(normalizeText(call.text))
        IN  /\ IF KgOccurrences(s) = {}
               THEN call.result = NaN
               ELSE call.result =
                        parseFloat(SubSeq(s, FirstKgOccurrence(s)[1], FirstKgOccurrence(s)[2]))
            /\ call.text = ExampleWeight => call.result = Num(2350)
            /\ call.text = ExampleNoUnit => call.result = NaN

\* a text with two weights: the first one, 1.5 kg, is returned
FirstOfTwoWeights ==
    /\ call.fn = "parseKg"
    /\ call.text = <<"1", ".", "5", "k", "g", " ", "3", " ", "K", "G">>
    /\ call.result = Num(1500)

(***************************************************************************)
(* Properties of the recognition result, of retrying and of the camera     *)
(***************************************************************************)
\* the id of the product matchProduct finds in a text, "" when it finds none
MatchedProductId(text) ==
    LET product == matchProduct(text, PRODUCTS).product
    IN  IF product = NoProduct THEN "" ELSE PRODUCTS[product].id

\* C18: recognition result -- after a successful recognition returning the
\* text T the pending record is exactly: raw text T, the id of the product
\* matchProduct finds in T (empty when it finds none) and the weight parseKg
\* reads from T (empty when it reads none), and the mode is confirm.
RecognitionFillsPending ==
    [][(\E s \in ScanIds : scans[s].pc = "recognize" /\ scans'[s].pc # "recognize"
                            /\ ocrText' # ocrText) =>
          /\ mode' = "confirm"
          /\ selectedProductId' = MatchedProductId(ocrText')
          /\ IF parseKg(ocrText').nan
             THEN kgInput' = <<>>
             ELSE parseFloat(kgInput') = parseKg(ocrText')]_vars

\* C19: retry after an initialization failure -- once a failed initialization
\* of the OCR engine has been reported and the modal is idle in camera mode,
\* the operator can start another capture attempt (which initializes again).
CanScanAfterInitFailure ==
    (open /\ mode = "camera" /\ ~loading /\ IdleScans # {}
          /\ error = "Failed to initialize OCR.")
        => ENABLED handleScan

\* C20: camera release -- after the session is closed no camera stream is
\* still running: every stream acquired has had its tracks stopped, also the
\* one whose getUserMedia request was pending when the close happened.
NoLiveStreamWhileClosed ==
    ~open => \A k \in Streams : streams[k] # "live"

(***************************************************************************)
(* Properties of the Stability Detector                                    *)
(***************************************************************************)
\* this step takes a sample
SampleTaken ==
    detector'.lastSampleAt = detector'.now /\ detector'.lastSampleAt # detector.lastSampleAt

\* this step takes a sample and compares it with the stored one
SampleCompared == SampleTaken /\ detector.prev # None

\* this step triggers a capture
Fired == detector'.triggers = detector.triggers + 1

\* a capture is triggered only with the lock free and once 800 ms have passed
\* since the last capture completed, so one capture at most is in flight
OneCaptureUntilCooldown ==
    /\ [](detector.triggers - detector.completions \in {0, 1})
    /\ [](detector.lock <=> detector.triggers - detector.completions = 1)
    /\ [][Fired => /\ ~detector.lock
                   /\ detector.doneAt # None => detector'.now - detector.doneAt >= 800]_vars

\* C21 as stated: a sample that finds the differences below 12 for at least
\* 500 ms, with the engine ready, triggers a capture; exactly one capture is
\* triggered, none until 800 ms after its completion.
CaptureAfterHalfSecondStable ==
    /\ OneCaptureUntilCooldown
    /\ [][(SampleCompared /\ frameDiff(detector.prev, detector'.prev) < 12
             /\ detector.ready /\ detector.stableSince # None
             /\ detector'.now - detector.stableSince >= 500) => Fired]_vars

\* C21: Stability Detector -- a sample that finds the differences below 12 for
\* more than 500 ms, with the engine ready, triggers a capture; exactly one
\* capture is triggered, and no further capture is triggered until 800 ms
\* have passed since its completion.
CaptureAfterMoreThanHalfSecondStable ==
    /\ OneCaptureUntilCooldown
    /\ [][(SampleCompared /\ frameDiff(detector.prev, detector'.prev) < 12
             /\ detector.ready /\ detector.stableSince # None
             /\ detector'.now - detector.stableSince > 500) => Fired]_vars

\* a second capture has been triggered, after the cooldown of the first
SecondCaptureAfterCooldown ==
    /\ detector.triggers = 2
    /\ detector.lock
    /\ detector.doneAt # None
    /\ detector.now - detector.doneAt >= 800

\* C22: teardown -- a torn-down detector takes no further sample and holds no
\* stored sample, so a sample is never compared with one of an earlier
\* session.
TeardownDropsSample ==
    /\ [](~detector.active => detector.prev = None)
    /\ [][~detector.active => ~SampleTaken]_vars
    /\ [][SampleCompared => detector.prevSession = detector.session]_vars

\* the second session has stored its own first sample
NewSessionStoredOwnSample ==
    /\ detector.session = 2
    /\ detector.active
    /\ detector.prev # None
    /\ detector.prevSession = 2

\* C27: auto-trigger -- the detector triggers a capture only when the frame
\* difference has stayed below 12 on every sample for more than 500 ms, the
\* engine is ready and no capture is in flight; a sample with a difference
\* of 12 or more resets the stability timer, so the 500 ms are accumulated
\* again from the next stable sample.
TriggerOnlyAfterUnbrokenStability ==
    /\ [][Fired =>
            /\ detector.ready
            /\ ~detector.lock
            /\ SampleCompared /\ frameDiff(detector.prev, detector'.prev) < 12
            /\ detector.quietSince # None
            /\ detector'.now - detector.quietSince > 500]_vars
    /\ [][(SampleCompared /\ frameDiff(detector.prev, detector'.prev) >= 12) =>
            /\ ~Fired
            /\ detector'.stableSince = None]_vars

\* a capture triggered after motion: the 500 ms ran from the first stable
\* sample after it
CaptureAfterMotion ==
    /\ detector.lock
    /\ detector.motionAt # None
    /\ detector.quietSince # None
    /\ detector.quietSince > detector.motionAt
    /\ detector.now - detector.quietSince > 500

(***************************************************************************)
(* Properties of the engine handle and of the in-flight flag               *)
(***************************************************************************)
\* the worker singleton holds a handle whose initialization succeeded, and
\* terminateWorker has not been called since
HandleCached ==
    /\ variant = "singleton"
    /\ workerInstance # 0
    /\ workers[workerInstance] = "settled"
    /\ termCalls[workerInstance] = 0

\* this step is handleScan of run s reaching the engine (getWorker, initWorker)
ReachesEngine(s) == scans[s].pc = "capture" /\ scans'[s].pc \in {"getWorker", "recognize"}

\* C23: handle reuse -- once an initialization has succeeded and until
\* terminateWorker is called, every getWorker call returns the same cached
\* handle and createWorker is not invoked again: while the handle of a
\* successful initialization is cached and terminateWorker has not been called
\* on it, a getWorker call after any step would still return that handle, no
\* step creates a worker, and the getWorker of handleScan and of preloadWorker
\* resolves at once to the cached handle.
CachedHandleReused ==
    [][HandleCached =>
          /\ getWorker' = [cached |-> TRUE, h |-> workerInstance, create |-> FALSE]
          /\ \A h \in Workers : workers[h] = "none" => workers'[h] = "none"
          /\ \A s \in ScanIds :
                ReachesEngine(s) => scans'[s] = [pc |-> "recognize", h |-> workerInstance]
          /\ (~open /\ open') => (workerReady' /\ waiters' = waiters)]_vars

\* C24: the component that keeps the worker in a ref never has two createWorker
\* calls in flight -- a scan requested while the initWorker of the opening is
\* pending waits for it instead of starting a second one, so a session
\* initializes at most one worker at a time.
RefSingleFlightInit ==
    variant = "ref" => Cardinality({h \in Workers : workers[h] = "init"}) < 2

\* run s of handleScan ends in this step, on the success path or on a failure path
CaptureEnds(s) == s \in InFlight /\ scans'[s].pc = "done"

\* C25: every capture that finishes, on the success path or on any failure
\* path, releases the in-flight flag (loading = false), and the flag is never
\* left set after a capture has ended: loading is set only while a run of
\* handleScan is in flight.
CaptureEndReleasesFlag ==
    /\ [](loading => InFlight # {})
    /\ [][\A s \in ScanIds : CaptureEnds(s) => ~loading']_vars

\* a capture has ended with a recognition failure: its message is shown and the
\* flag is released with the modal still open on the camera
FailedCaptureReleasedFlag ==
    /\ open
    /\ mode = "camera"
    /\ error = EngineError
    /\ ~loading
    /\ InFlight = {}
    /\ \E s \in ScanIds : scans[s].pc = "done"

\* run s of handleScan ends in this step because recognize threw: it was
\* awaiting recognize, it reports the failure and fills no pending record
RecognitionFails(s) ==
    /\ scans[s].pc = "recognize"
    /\ scans'[s].pc = "done"
    /\ error' \in {EngineError, "OCR failed"}
    /\ UNCHANGED <<mode, pendingVars>>

\* C26: a recognition failure during a capture leaves the OCR engine handle
\* untouched -- the cached handle and the in-flight marker are unchanged, no
\* worker is created or terminated and no caller awaiting the engine is
\* dropped, so the next capture reuses the same handle.
RecognitionFailureKeepsEngine ==
    [][\A s \in ScanIds :
          RecognitionFails(s) =>
              UNCHANGED <<workerInstance, workerPromise, workerRef, workers,
                          termCalls, termPending, waiters>>]_vars

\* recognize has thrown in the component that keeps the worker in a ref, and the
\* only worker ever created is still in the ref, not terminated
HandleKeptAfterRecognitionFailure ==
    /\ variant = "ref"
    /\ open
    /\ error = EngineError
    /\ workerRef = 1
    /\ termCalls[1] = 0
    /\ \A h \in Workers \ {1} : workers[h] = "none"
    /\ initWorker = [cached |-> TRUE, h |-> 1, create |-> FALSE]

\* C28: the output of normalizeText never starts or ends with whitespace,
\* contains no run of two or more whitespace characters, no combining
\* diacritical mark (U+0300..U+036F) and no lower-case letter, for every input.
NormalizedTextIsClean ==
    call.fn = "normalizeText" =>
        LET r == call.result
        IN  /\ r # <<>> => ~IsSpace(r[1]) /\ ~IsSpace(r[Len(r)])
            /\ \A i \in 1..(Len(r) - 1) : ~(IsSpace(r[i]) /\ IsSpace(r[i + 1]))
            /\ \A i \in 1..Len(r) : ~IsCombining(r[i])
            /\ \A i \in 1..Len(r) : r[i] \notin Range(LowerLetters)

\* the strings one insertion, deletion or substitution of a character away from
\* s, over the alphabet and no longer than n
OneEdit(s, alphabet, n) ==
    {SubSeq(s, 1, i - 1) \o SubSeq(s, i + 1, Len(s)) : i \in 1..Len(s)}
        \cup {[s EXCEPT ![i] = c] : i \in 1..Len(s), c \in alphabet}
        \cup (IF Len(s) < n
              THEN {SubSeq(s, 1, i) \o <<c>> \o SubSeq(s, i + 1, Len(s)) :
                        i \in 0..Len(s), c \in alphabet}
              ELSE {})

\* the strings at most k edits away from a string of S
RECURSIVE WithinEdits(_, _, _, _)
WithinEdits(S, alphabet, n, k) ==
    IF k = 0 THEN S
    ELSE WithinEdits(S \cup UNION {OneEdit(s, alphabet, n) : s \in S}, alphabet, n, k - 1)

\* the Levenshtein distance: the least number of single-character insertions,
\* deletions and substitutions that turn a into b
EditDistance(a, b) ==
    LET n == IF Len(a) >= Len(b) THEN Len(a) ELSE Len(b)
        alphabet == Range(a) \cup Range(b)
    IN  CHOOSE k \in 0..n :
            /\ b \in WithinEdits({a}, alphabet, n, k)
            /\ \A j \in 0..(k - 1) : b \notin WithinEdits({a}, alphabet, n, j)

\* C29: similarity(a, b) equals 1 - d(a, b) / max(len(a), len(b)) with d the
\* true Levenshtein distance, and 1 for two empty strings; hence it is
\* symmetric, lies in [0, 1] and equals 1 exactly when a = b.
SimilarityIsNormalizedEditDistance ==
    call.fn = "similarity" =>
        LET a == call.a
            b == call.b
            r == call.result
            maxLen == IF Len(a) >= Len(b) THEN Len(a) ELSE Len(b)
        IN  /\ r[2] > 0
            /\ IF maxLen = 0 THEN r[1] = r[2]
               ELSE r[1] * maxLen = (maxLen - EditDistance(a, b)) * r[2]
            /\ similarity(b, a) = r
            /\ 0 <= r[1] /\ r[1] <= r[2]
            /\ (r[1] = r[2]) <=> (a = b)

\* two strings of the same length whose distance is less than the number of
\* positions at which they differ
ShiftedStringsCompared ==
    /\ call.fn = "similarity"
    /\ call.a = <<"F", "O", "F">>
    /\ call.b = <<"O", "F", "O">>
    /\ call.result = <<1, 3>>

\* the products one of whose keywords reaches the maximum fuzzy score
TopProducts(text, products) ==
    {i \in 1..Len(products) :
        \E k \in 1..Len(products[i].keywords) :
            \E x \in PairScores(text, products, i, k) :
                IsMaxScore(x, AllScores(text, products))}

\* C30: when several (product, keyword) pairs reach the same maximum fuzzy
\* score, matchProduct returns the product of the pair encountered first in
\* catalog order and keyword order; a later pair replaces the best only with a
\* strictly greater score, so no product before the returned one reaches the
\* maximum.
FuzzyTieKeepsFirst ==
    (call.fn = "matchProduct" /\ call.result.method = "fuzzy") =>
        /\ call.result.product \in TopProducts(call.text, call.products)
        /\ \A i \in TopProducts(call.text, call.products) : call.result.product <= i

\* FOO0 is one character from FOOT of the first product and from FOOD of the
\* second: both score 3/4 and the first product is returned
TieReturnsFirstProduct ==
    /\ call.fn = "matchProduct"
    /\ call.text = <<"F", "O", "O", "0">>
    /\ call.products \in {CatalogTie, CatalogTieReversed}
    /\ TopProducts(call.text, call.products) = {1, 2}
    /\ similarity(FOOT, call.text) = <<3, 4>>
    /\ similarity(FOOD, call.text) = <<3, 4>>
    /\ call.result = [product |-> 1, method |-> "fuzzy"]

\* C31: matchProduct with an empty catalog returns no product and method none
\* for every text, and a product whose keyword list is empty is never
\* returned, by the exact or the fuzzy pass, for any text and any catalog.
ProductWithoutKeywordsNeverMatched ==
    call.fn = "matchProduct" =>
        /\ call.products = <<>> => call.result = [product |-> NoProduct, method |-> "none"]
        /\ call.result.product # NoProduct =>
              /\ call.result.product \in 1..Len(call.products)
              /\ call.products[call.result.product].keywords # <<>>

\* the first product of the catalog has no keyword: the text is matched to the
\* second one
ProductWithoutKeywordsSkipped ==
    /\ call.fn = "matchProduct"
    /\ call.products = CatalogNoKeywords
    /\ call.products[1].keywords = <<>>
    /\ call.result = [product |-> 2, method |-> "keyword"]

\* C32: a capture started before the modal was closed never alters the session
\* after the close -- while the modal is closed the mode stays camera and the
\* pending record stays empty.
ClosedModalStaysReset == ~open => (mode = "camera" /\ PendingEmpty)

\* C33: getWorker never resolves to a handle on which terminate has already
\* been invoked -- neither the getWorker of preloadWorker when the modal opens,
\* nor the getWorker of handleScan, at once or after awaiting the
\* initialization.
GetWorkerResolvesToLiveHandle ==
    [][variant = "singleton" =>
          /\ (~open /\ open' /\ workerReady') => termCalls[workerInstance'] = 0
          /\ \A s \in ScanIds :
                (scans[s].pc \in {"capture", "getWorker"} /\ scans'[s].pc = "recognize")
                    => termCalls[scans'[s].h] = 0]_vars

\* C34: terminate is invoked at most once on any worker handle -- closing the
\* modal, which runs the cleanup of the previous effect and then the effect
\* body for open = false, does not terminate the same handle twice.
TerminateAtMostOnce == \A h \in Workers : termCalls[h] < 2

\* C35: after any sequence of createSession, deleteSession, addRecord and
\* deleteRecord the persisted store holds at most 10 sessions; createSession
\* puts the new session first, keeps the nine sessions that were first before
\* it in their order and evicts only the sessions beyond the tenth, and the id
\* it returns is retrievable with getSessionById immediately afterwards.
StoreKeepsTenNewestSessions ==
    /\ [](Len(loadSessions) <= 10)
    /\ [][call'.fn = "createSession" =>
            LET old == loadSessions
                new == loadSessions'
            IN  /\ new # <<>>
                /\ new[1] = [id |-> call'.result, records |-> <<>>]
                /\ \A i \in 1..Len(old) : old[i].id # call'.result
                /\ Tail(new) = SubSeq(old, 1, IF Len(old) < 9 THEN Len(old) ELSE 9)
                /\ findById(new, call'.result) = new[1]]_vars

\* the eleventh session has been created with none deleted: the store holds
\* ten sessions and the oldest one is gone
OldestSessionEvicted ==
    /\ call.fn = "createSession"
    /\ call.result = 11
    /\ Len(loadSessions) = 10
    /\ loadSessions[1].id = 11
    /\ loadSessions[10].id = 2
    /\ getSessionById(1) = Undefined

\* the ids of the sessions of a list, in order
SessionIds(sessions) == [i \in 1..Len(sessions) |-> sessions[i].id]

\* C36: addRecord(sessionId, record) puts the record at the head of exactly
\* the session with that id, keeps that session's earlier records in their
\* previous order, leaves every other session unchanged, leaves the store
\* unchanged when no session has that id, and returns the list it persisted.
AddRecordPrependsToOneSession ==
    [][call'.fn = "addRecord" =>
          LET old == loadSessions
              new == loadSessions'
          IN  /\ SessionIds(new) = SessionIds(old)
              /\ \A i \in 1..Len(old) :
                    IF old[i].id = call'.sessionId
                    THEN /\ Head(new[i].records) = call'.record
                         /\ Tail(new[i].records) = old[i].records
                    ELSE new[i] = old[i]
              /\ (\A i \in 1..Len(old) : old[i].id # call'.sessionId) => new = old
              /\ call'.result = new]_vars

\* a second record has been added to the oldest session: it comes before the
\* first one, and the session created after it holds its own record
RecordAddedBeforeEarlierOne ==
    /\ call.fn = "addRecord"
    /\ call.sessionId = 1
    /\ call.record = StoredRecord(102)
    /\ getSessionById(1) # Undefined
    /\ getSessionById(1).records = <<StoredRecord(102), StoredRecord(101)>>
    /\ getSessionById(2) # Undefined
    /\ getSessionById(2).records = <<StoredRecord(101)>>

\* the sessions without the records of session sessionId whose id is recordId
WithoutRecord(sessions, sessionId, recordId) ==
    [i \in 1..Len(sessions) |->
        IF sessions[i].id = sessionId
        THEN [id |-> sessions[i].id,
              records |-> SelectSeq(sessions[i].records, LAMBDA r : r.id # recordId)]
        ELSE sessions[i]]

\* the sessions without the sessions whose id is sessionId
WithoutSession(sessions, sessionId) == SelectSeq(sessions, LAMBDA s : s.id # sessionId)

\* C37: deleteRecord(sessionId, recordId) removes exactly the records with
\* that id from that session, and deleteSession(sessionId) removes exactly
\* that session; all other sessions and records keep their content and order,
\* and repeating either call changes nothing further.
DeleteRemovesExactlyTheTarget ==
    [][LET old == loadSessions
           new == loadSessions'
       IN  /\ call'.fn = "deleteRecord" =>
                 /\ new = WithoutRecord(old, call'.sessionId, call'.recordId)
                 /\ call'.result = new
                 /\ WithoutRecord(new, call'.sessionId, call'.recordId) = new
           /\ call'.fn = "deleteSession" =>
                 /\ new = WithoutSession(old, call'.sessionId)
                 /\ WithoutSession(new, call'.sessionId) = new]_vars

\* record 101 has been deleted from the oldest session, which keeps its other
\* record, while the next session still holds its record 101
RecordDeletedFromOneSession ==
    /\ call.fn = "deleteRecord"
    /\ call.sessionId = 1
    /\ call.recordId = 101
    /\ getSessionById(1) # Undefined
    /\ getSessionById(1).records = <<StoredRecord(102)>>
    /\ getSessionById(2) # Undefined
    /\ getSessionById(2).records = <<StoredRecord(102), StoredRecord(101)>>

\* C38: every record the scan modal emits on confirm is persisted exactly
\* once, as the first record of the session currently shown, with source
\* "ocr" and the emitted productId, productName, kg and rawText; no confirmed
\* record is dropped.
EmittedRecordIsPersisted ==
    [][emitted' # emitted =>
          LET record == emitted'[Len(emitted')]
              before == findById(loadSessions, page.sessionId)
              after == findById(loadSessions', page.sessionId)
          IN  /\ after # Undefined
              /\ after.records # <<>>
              /\ Head(after.records) =
                     [id |-> uidCount', productId |-> record.productId,
                      productName |-> record.productName, kg |-> record.kg,
                      source |-> "ocr", rawText |-> record.rawText]
              /\ before # Undefined
              /\ Tail(after.records) = before.records]_vars

\* the checks a request has to pass, in their order of precedence, with the
\* status each one answers when it is the first to fail
RouteChecks(c) ==
    << [ok |-> c.apiKey # <<>>, status |-> 500],
       [ok |-> c.model # <<>>, status |-> 500],
       [ok |-> c.contentType # <<>> /\ c.contentType[1] = "multipart/form-data",
        status |-> 400],
       [ok |-> c.body.kind = "file", status |-> 400],
       [ok |-> c.body.kind = "file" => c.body.size <= 3145728, status |-> 413] >>

\* C39: POST /api/ocr calls the upstream model only when the API key and the
\* model are configured, the content type is multipart/form-data, the image
\* field is a file and its size is at most 3 MB; the first violated check
\* answers with its status (500, 500, 400, 400, 413 in that order of
\* precedence) and an error message of its own, without any upstream call; an
\* upstream failure answers 500 with an error message.
RouteValidatesBeforeUpstream ==
    call.fn = "POST" =>
        LET checks == RouteChecks(call)
            failed == {i \in 1..5 : ~checks[i].ok}
            r == call.result
        IN  IF failed = {}
            THEN /\ r.upstream = 1
                 /\ call.outcome = "error" => (r.status = 500 /\ r.error # Null)
                 /\ call.outcome = "text" => (r.status = 200 /\ r.error = Null)
            ELSE LET first == CHOOSE i \in failed : \A j \in failed : i <= j
                 IN  /\ r.upstream = 0
                     /\ r.status = checks[first].status
                     /\ r.error # Null
                     /\ \A other \in EnvValues \X EnvValues \X ContentTypes \X Bodies :
                           LET o == [apiKey |-> other[1], model |-> other[2],
                                     contentType |-> other[3], body |-> other[4]]
                               oFailed == {i \in 1..5 : ~RouteChecks(o)[i].ok}
                           IN  (oFailed # {} /\ first \notin oFailed
                                  /\ \A j \in oFailed : first < j)
                                 => POST(o.apiKey, o.model, o.contentType, o.body,
                                         call.outcome).error # r.error

\* a file of exactly 3 MB passed every check and the upstream call failed
LargestFileReachedUpstream ==
    /\ call.fn = "POST"
    /\ call.body = [kind |-> "file", size |-> 3145728]
    /\ call.outcome = "error"
    /\ call.result = [status |-> 500, error |-> UpstreamError, upstream |-> 1]

=============================================================================
